---------------------------- MODULE Spec2Model ----------------------------
(***************************************************************************)
(* The Reference Validator of src/src/services/reference-validator.ts.     *)
(*                                                                         *)
(* A document's text is a sequence of tokens.  A token is one character    *)
(* ("#", " ", "\n", "|", "-", "[", "]", "(", ")", "/", ".", "x") or a run   *)
(* of ordinary characters that the regular expressions of the validator    *)
(* never split: a file name, "..", a URL scheme, and FENCE, which stands    *)
(* for three backticks.  A document is its text followed by `pad' filler   *)
(* characters "x" (the tests build large documents with "x".repeat(n)).    *)
(*                                                                         *)
(* Paths are sequences of names relative to the references directory and   *)
(* follow node:path on POSIX ("/" separates segments).  Nothing that a     *)
(* document can name exists outside the references directory.              *)
(***************************************************************************)
EXTENDS Integers, Sequences, FiniteSets, TLC

VARIABLES fs, call, ret, pending, contentRead, server, fetched, plugin, cli

vars == <<fs, call, ret, pending, contentRead, server, fetched, plugin, cli>>

\* What belongs to the other operations than the one an action is a step of.
elsewhere == <<contentRead, server, fetched, plugin, cli>>

\* The servers and the DocsFetcher.
netVars == <<server, fetched>>

\* The plugin directory and the validate-references process.
cliVars == <<plugin, cli>>

---------------------------------------------------------------------------
(* Bounds of the model *)

\* Releases in an answer of the releases server (SpecNet).
MaxReleases == 3

\* Blocks per generated document text (SpecDoc).
MaxBlocks == 3

\* Files the environment keeps in the tree at a time (Spec).
MaxFiles == 2

---------------------------------------------------------------------------
(* Program constants *)

SIZE_WARN_THRESHOLD == 2 * 1024

SIZE_ERROR_THRESHOLD == 3 * 1024

EXCLUDED_FILES == <<"README.md", "index.md", "releases.md">>

---------------------------------------------------------------------------
(* Sequences *)

Range(s) == {s[i] : i \in 1..Len(s)}

RECURSIVE Flatten(_)
Flatten(ss) == IF ss = <<>> THEN <<>> ELSE Head(ss) \o Flatten(Tail(ss))

\* Array.prototype.includes
Includes(s, x) == \E i \in 1..Len(s) : s[i] = x

\* Smallest index i >= from with s[i] = t, or 0 (String.prototype.indexOf).
IndexOf(s, t, from) ==
    IF \E i \in from..Len(s) : s[i] = t
    THEN CHOOSE i \in from..Len(s) : s[i] = t /\ \A j \in from..(i - 1) : s[j] # t
    ELSE 0

\* s with x inserted so that it ends up at position k.
InsertAt(s, k, x) == SubSeq(s, 1, k - 1) \o <<x>> \o SubSeq(s, k, Len(s))

RemoveElem(s, x) == SelectSeq(s, LAMBDA y : y # x)

---------------------------------------------------------------------------
(* Text *)

\* UTF-8 length of a token; every token is ASCII.
ByteLen(t) == IF t = "FENCE" THEN 3 ELSE Len(t)

RECURSIVE TextBytes(_)
TextBytes(text) ==
    IF text = <<>> THEN 0 ELSE ByteLen(Head(text)) + TextBytes(Tail(text))

\* What readFile(fullPath, "utf-8") returns for a file node: its text and then
\* the filler, a run of "x" that every pattern of the validator treats as it
\* treats one "x".
ContentOf(node) == node.text \o (IF node.pad > 0 THEN <<"x">> ELSE <<>>)

\* What stat(fullPath).size is for a file node.
SizeOf(node) == TextBytes(node.text) + node.pad

\* Character classes of the patterns, on tokens.
IsNewline(t) == t = "\n"

\* \s
IsSpace(t) == t \in {" ", "\n"}

\* [-:|\s]
IsSeparatorChar(t) == t \in {"-", "|"} \/ IsSpace(t)


---------------------------------------------------------------------------
(* Findings and messages.  A message is a sequence of pieces; it is cut    *)
(* where a claim looks for a substring, so that "3KB" occurs in a message  *)
(* exactly when a piece "3" is followed by the piece "KB".                 *)

Finding(rule, message) == [rule |-> rule, message |-> message]

\* (size / 1024).toFixed(1): size / 1024 is exact in a double, and toFixed takes
\* the nearest tenth, the larger one on a tie.  <<integer part, tenths digit>>.
ToFixed1(size) ==
    LET n == (size * 10 + 512) \div 1024
    IN  <<ToString(n \div 10), ToString(n % 10)>>

SizeErrorMessage(size) ==
    <<"File exceeds ", "3", "KB", " (", ToFixed1(size)[1], ".", ToFixed1(size)[2],
      "KB", ")">>

SizeWarnMessage(size) ==
    <<"File exceeds ", "2", "KB", " (", ToFixed1(size)[1], ".", ToFixed1(size)[2],
      "KB", "), consider splitting">>

TableMessage == <<"File must contain at least one markdown table">>

NoH1Message == <<"File has ", "no", " h1 heading (must have exactly one)">>

MultipleH1Message(n) ==
    <<"File has ", "multiple", " h1 headings (", ToString(n),
      "), must have exactly one">>

\* Mutant: the message names the file linked to, not the target as written.
BrokenLinkMessage_FileName(linkPath) ==
    <<"Broken internal link: ", linkPath[Len(linkPath)]>>

BrokenLinkMessage(linkPath) == <<"Broken internal link: ">> \o linkPath

---------------------------------------------------------------------------
(* Size rule *)

\* Mutant: the warning threshold is tested first.
SizeFindings_WarnFirst(size) ==
    IF size > SIZE_WARN_THRESHOLD
    THEN [errors |-> <<>>, warnings |-> <<Finding("size", SizeWarnMessage(size))>>]
    ELSE IF size > SIZE_ERROR_THRESHOLD
    THEN [errors |-> <<Finding("size", SizeErrorMessage(size))>>, warnings |-> <<>>]
    ELSE [errors |-> <<>>, warnings |-> <<>>]

\* Mutant: the thresholds are inclusive.
SizeFindings_Inclusive(size) ==
    IF size >= SIZE_ERROR_THRESHOLD
    THEN [errors |-> <<Finding("size", SizeErrorMessage(size))>>, warnings |-> <<>>]
    ELSE IF size >= SIZE_WARN_THRESHOLD
    THEN [errors |-> <<>>, warnings |-> <<Finding("size", SizeWarnMessage(size))>>]
    ELSE [errors |-> <<>>, warnings |-> <<>>]

\* Mutant: the second test is an `if', not an `else if'.
SizeFindings_NoElse(size) ==
    [errors |-> IF size > SIZE_ERROR_THRESHOLD
                THEN <<Finding("size", SizeErrorMessage(size))>> ELSE <<>>,
     warnings |-> IF size > SIZE_WARN_THRESHOLD
                  THEN <<Finding("size", SizeWarnMessage(size))>> ELSE <<>>]

SizeFindings(size) ==
    IF size > SIZE_ERROR_THRESHOLD
    THEN [errors |-> <<Finding("size", SizeErrorMessage(size))>>, warnings |-> <<>>]
    ELSE IF size > SIZE_WARN_THRESHOLD
    THEN [errors |-> <<>>, warnings |-> <<Finding("size", SizeWarnMessage(size))>>]
    ELSE [errors |-> <<>>, warnings |-> <<>>]

---------------------------------------------------------------------------
(* Table-first rule: /\|[^\n]+\|[\s\n]+\|[-:|\s]+\|/m.test(content), run as  *)
(* the set of positions of the pattern that are live after each token.     *)
(*   1 after the first "|"      2 inside [^\n]+      3 after the second "|"  *)
(*   4 inside [\s\n]+           5 after the third "|" 6 inside [-:|\s]+      *)
(*   7 after the last "|": a match.                                        *)

TableStep(S, t) ==
       (IF t = "|" THEN {1} ELSE {})
    \cup (IF (1 \in S \/ 2 \in S) /\ ~IsNewline(t) THEN {2} ELSE {})
    \cup (IF 2 \in S /\ t = "|" THEN {3} ELSE {})
    \cup (IF (3 \in S \/ 4 \in S) /\ IsSpace(t) THEN {4} ELSE {})
    \cup (IF 4 \in S /\ t = "|" THEN {5} ELSE {})
    \cup (IF (5 \in S \/ 6 \in S) /\ IsSeparatorChar(t) THEN {6} ELSE {})
    \cup (IF 6 \in S /\ t = "|" THEN {7} ELSE {})

RECURSIVE TableRun(_, _)
TableRun(content, S) ==
    IF 7 \in S THEN TRUE
    ELSE IF content = <<>> THEN FALSE
    ELSE TableRun(Tail(content), TableStep(S, Head(content)))

HasTable(content) == TableRun(content, {})

---------------------------------------------------------------------------
(* Single-h1 rule *)

\* content.replace(/```[\s\S]*?```/g, ""): each fence with the nearest fence
\* after it, and all between them, is removed; a fence with none after it stays.
RECURSIVE StripCodeBlocks(_)
StripCodeBlocks(content) ==
    LET open  == IndexOf(content, "FENCE", 1)
        close == IF open = 0 THEN 0 ELSE IndexOf(content, "FENCE", open + 1)
    IN  IF close = 0 THEN content
        ELSE SubSeq(content, 1, open - 1)
               \o StripCodeBlocks(SubSeq(content, close + 1, Len(content)))

\* The places where /^# .+$/gm matches: a line start, "#", a space, and at
\* least one more character on the line.
H1Starts(s) ==
    {i \in 1..Len(s) :
        /\ i = 1 \/ IsNewline(s[i - 1])
        /\ s[i] = "#"
        /\ i + 2 <= Len(s)
        /\ s[i + 1] = " "
        /\ ~IsNewline(s[i + 2])}

\* h1Matches.length (0 when match() returns null).
H1Count(content) == Cardinality(H1Starts(StripCodeBlocks(content)))

\* Mutant: only more than one heading is an error.
H1Findings_OnlyMultiple(content) ==
    LET n == H1Count(content)
    IN  IF n > 1 THEN <<Finding("single-h1", MultipleH1Message(n))>> ELSE <<>>

H1Findings(content) ==
    LET n == H1Count(content)
    IN  IF n = 0 THEN <<Finding("single-h1", NoH1Message)>>
        ELSE IF n > 1 THEN <<Finding("single-h1", MultipleH1Message(n))>>
        ELSE <<>>

---------------------------------------------------------------------------
(* The tree under the references directory.  fs maps every path of the     *)
(* universe to a node: kind is "none", "dir" or "file"; a directory keeps  *)
(* its entries in the order readdir returns them; a file keeps its text    *)
(* and its filler.  The root <<>> is the references directory itself.      *)

DirPaths == {<<>>, <<"hooks">>, <<"plugins">>, <<"hooks", "deep">>}

\* The files of the universe: every name at the root, fewer below it.
FilePaths ==
    {<<"a.md">>, <<"b.md">>, <<"README.md">>, <<"index.md">>, <<"releases.md">>,
     <<"n.txt">>,
     <<"hooks", "a.md">>, <<"hooks", "b.md">>, <<"hooks", "README.md">>,
     <<"plugins", "a.md">>,
     <<"hooks", "deep", "a.md">>, <<"hooks", "deep", "index.md">>}

AllPaths == DirPaths \cup FilePaths

Absent == [kind |-> "none", entries |-> <<>>, text |-> <<>>, pad |-> 0]

DirNode(entries) == [kind |-> "dir", entries |-> entries, text |-> <<>>, pad |-> 0]

FileNode(text, pad) == [kind |-> "file", entries |-> <<>>, text |-> text, pad |-> pad]

NodeAt(tree, path) == IF path \in DOMAIN tree THEN tree[path] ELSE Absent

Parent(path) == SubSeq(path, 1, Len(path) - 1)

Last(path) == path[Len(path)]

\* name.endsWith(".md"), for the names of the universe.
EndsWithMd(name) == name \in {"a.md", "b.md", "README.md", "index.md", "releases.md"}

---------------------------------------------------------------------------
(* node:path *)

\* dirname(relativePath), as segments: <<>> is ".".
Dirname(path) == Parent(path)

\* The segments of a link target: it is cut at every "/".  A URL scheme holds
\* two of them.  A segment that is no single token of the universe is a name
\* that nothing in the tree bears, written "?".
ExpandToken(t) == IF t \in {"http://", "https://"} THEN <<"?", "/", "/">> ELSE <<t>>

RECURSIVE ExpandTokens(_)
ExpandTokens(toks) ==
    IF toks = <<>> THEN <<>> ELSE ExpandToken(Head(toks)) \o ExpandTokens(Tail(toks))

SegmentName(toks) ==
    IF toks = <<>> THEN ""
    ELSE IF toks = <<".", ".">> THEN ".."
    ELSE IF Len(toks) = 1 THEN toks[1]
    ELSE "?"

RECURSIVE SplitSegments(_, _)
SplitSegments(toks, cur) ==
    IF toks = <<>> THEN <<SegmentName(cur)>>
    ELSE IF Head(toks) = "/" THEN <<SegmentName(cur)>> \o SplitSegments(Tail(toks), <<>>)
    ELSE SplitSegments(Tail(toks), Append(cur, Head(toks)))

\* join(base, ...segments), normalized: "" and "." are dropped and ".." removes
\* the segment before it; a ".." that leaves the references directory stays.
RECURSIVE Normalize(_, _)
Normalize(base, segs) ==
    IF segs = <<>> THEN base
    ELSE LET seg == Head(segs)
         IN  IF seg = "" \/ seg = "." THEN Normalize(base, Tail(segs))
             ELSE IF seg = ".."
             THEN IF base # <<>> /\ Last(base) # ".."
                  THEN Normalize(Parent(base), Tail(segs))
                  ELSE Normalize(Append(base, ".."), Tail(segs))
             ELSE Normalize(Append(base, seg), Tail(segs))

\* join(fileDir, linkPath): the path, and whether it ends in "/" (then only a
\* directory answers to it).
JoinLink(fileDir, linkPath) ==
    LET segs == SplitSegments(ExpandTokens(linkPath), <<>>)
    IN  [path |-> Normalize(fileDir, segs),
         slash |-> Len(segs) > 1 /\ segs[Len(segs)] = ""]

\* Whether `await stat(target)` succeeds.
StatSucceeds(tree, target) ==
    LET node == NodeAt(tree, target.path)
    IN  IF target.slash THEN node.kind = "dir" ELSE node.kind # "none"

---------------------------------------------------------------------------
(* Link-integrity rule *)

\* Every match of /\[([^\]]+)\]\(([^)]+)\)/g from position `from' on, in order:
\* the captured targets (match[2]).  The text runs to the first "]" and is not
\* empty, "(" follows at once, the target runs to the first ")" and is not
\* empty; the search goes on after the ")".
RECURSIVE LinkTargets(_, _)
LinkTargets(content, from) ==
    LET open == IndexOf(content, "[", from)
        close == IF open = 0 THEN 0 ELSE IndexOf(content, "]", open + 1)
        paren == IF close = 0 \/ close + 1 > Len(content) THEN 0
                 ELSE IF content[close + 1] = "(" THEN close + 1 ELSE 0
        last  == IF paren = 0 THEN 0 ELSE IndexOf(content, ")", paren + 1)
    IN  IF open = 0 \/ close = 0 THEN <<>>
        ELSE IF close = open + 1 \/ paren = 0 \/ last = 0 \/ last = paren + 1
        THEN LinkTargets(content, open + 1)
        ELSE <<SubSeq(content, paren + 1, last - 1)>> \o LinkTargets(content, last + 1)

\* linkPath.startsWith("http://") || linkPath.startsWith("https://")
IsExternal(linkPath) == linkPath[1] \in {"http://", "https://"}

\* linkPath.startsWith("#")
IsAnchor(linkPath) == linkPath[1] = "#"

\* Mutant: anchors are checked like paths.
IsSkipped_NoAnchor(linkPath) == linkPath[1] \in {"http://", "https://"}

IsSkipped(linkPath) == IsExternal(linkPath) \/ IsAnchor(linkPath)

\* Mutant: every target is resolved from the references directory itself.
LinkBaseDir_Root(relativePath) == <<>>

\* fileDir, relative to the references directory.
LinkBaseDir(relativePath) == Dirname(relativePath)

BrokenLinkError(linkPath) == Finding("valid-links", BrokenLinkMessage(linkPath))

\* The loop of validateInternalLinks over the targets still to visit: the
\* errors pushed and the targets handed to stat, in order.
RECURSIVE LinkLoop(_, _, _)
LinkLoop(tree, targets, relativePath) ==
    IF targets = <<>> THEN [errors |-> <<>>, statted |-> <<>>]
    ELSE LET linkPath == Head(targets)
             rest == LinkLoop(tree, Tail(targets), relativePath)
             targetPath == JoinLink(LinkBaseDir(relativePath), linkPath)
         IN  IF IsSkipped(linkPath) THEN rest
             ELSE [errors |-> (IF StatSucceeds(tree, targetPath) THEN <<>>
                               ELSE <<BrokenLinkError(linkPath)>>) \o rest.errors,
                   statted |-> <<[link |-> linkPath, path |-> targetPath.path]>>
                                 \o rest.statted]

Reverse(s) == [i \in 1..Len(s) |-> s[Len(s) + 1 - i]]

\* Mutant: each error is put in front of the earlier ones (unshift for push).
ValidateInternalLinks_Reversed(tree, content, relativePath) ==
    LET loop == LinkLoop(tree, LinkTargets(content, 1), relativePath)
    IN  [errors |-> Reverse(loop.errors), statted |-> loop.statted]

ValidateInternalLinks(tree, content, relativePath) ==
    LinkLoop(tree, LinkTargets(content, 1), relativePath)

---------------------------------------------------------------------------
(* ReferenceValidator.  What a call gives back is a record: status "ok"    *)
(* with the ValidationResults returned, or status "throw" when the promise *)
(* rejects; statted lists the link targets the call handed to stat.        *)

Thrown == [status |-> "throw", results |-> <<>>, statted |-> <<>>]

Returned(results, statted) ==
    [status |-> "ok", results |-> results, statted |-> statted]

\* Mutant: a warning makes the document invalid too.
MakeResult_CountWarnings(relativePath, errors, warnings) ==
    [path |-> relativePath, valid |-> (Len(errors) + Len(warnings) = 0),
     errors |-> errors, warnings |-> warnings]

MakeResult(relativePath, errors, warnings) ==
    [path |-> relativePath, valid |-> (Len(errors) = 0),
     errors |-> errors, warnings |-> warnings]

TableFindings(content) ==
    IF ~HasTable(content) THEN <<Finding("table-first", TableMessage)>> ELSE <<>>

\* Mutant: a size error ends the validation of the document.
RunRules_StopAtSize(tree, content, size, relativePath) ==
    LET sized == SizeFindings(size)
        links == ValidateInternalLinks(tree, content, relativePath)
    IN  IF sized.errors # <<>>
        THEN [result |-> MakeResult(relativePath, sized.errors, sized.warnings),
              statted |-> <<>>]
        ELSE [result |-> MakeResult(relativePath,
                                    TableFindings(content) \o H1Findings(content)
                                        \o links.errors,
                                    sized.warnings),
              statted |-> links.statted]

\* Mutant: the links are searched in the text without its code blocks.
RunRules_LinksAfterStrip(tree, content, size, relativePath) ==
    LET sized == SizeFindings(size)
        links == ValidateInternalLinks(tree, StripCodeBlocks(content), relativePath)
    IN  [result |-> MakeResult(relativePath,
                               sized.errors \o TableFindings(content)
                                   \o H1Findings(content) \o links.errors,
                               sized.warnings),
         statted |-> links.statted]

\* validateFile after its two reads: the rules in the order of the code, each
\* pushing to errors or warnings.
RunRules(tree, content, size, relativePath) ==
    LET sized   == SizeFindings(size)
        errors1 == sized.errors
        errors2 == errors1 \o TableFindings(content)
        errors3 == errors2 \o H1Findings(content)
        links   == ValidateInternalLinks(tree, content, relativePath)
        errors4 == errors3 \o links.errors
    IN  [result |-> MakeResult(relativePath, errors4, sized.warnings),
         statted |-> links.statted]

HasBrokenLink(errors) == \E i \in 1..Len(errors) : errors[i].rule = "valid-links"

\* Mutant: a document that cannot be read is reported as a finding.
ValidateFileOn_MissingIsFinding(tree, relativePath) ==
    LET node == NodeAt(tree, relativePath)
    IN  IF node.kind # "file"
        THEN Returned(<<MakeResult(relativePath,
                                   <<Finding("read", <<"File cannot be read">>)>>,
                                   <<>>)>>, <<>>)
        ELSE LET run == RunRules(tree, ContentOf(node), SizeOf(node), relativePath)
             IN  Returned(<<run.result>>, run.statted)

\* Mutant: the rejection of stat for a link target is not caught.
ValidateFileOn_LinksRaise(tree, relativePath) ==
    LET node == NodeAt(tree, relativePath)
    IN  IF node.kind # "file" THEN Thrown
        ELSE LET run == RunRules(tree, ContentOf(node), SizeOf(node), relativePath)
             IN  IF HasBrokenLink(run.result.errors) THEN Thrown
                 ELSE Returned(<<run.result>>, run.statted)

\* validateFile(relativePath): readFile rejects unless the path is a file.
ValidateFileOn(tree, relativePath) ==
    LET node == NodeAt(tree, relativePath)
    IN  IF node.kind # "file" THEN Thrown
        ELSE LET run == RunRules(tree, ContentOf(node), SizeOf(node), relativePath)
             IN  Returned(<<run.result>>, run.statted)

\* The loop of findMarkdownFiles(dir) over the entries still to visit.
RECURSIVE FindEntries(_, _, _)
FindEntries(tree, dir, entries) ==
    IF entries = <<>> THEN <<>>
    ELSE LET fullPath == Append(dir, Head(entries))
             node == NodeAt(tree, fullPath)
             found == IF node.kind = "dir" THEN FindEntries(tree, fullPath, node.entries)
                      ELSE IF node.kind = "file" /\ EndsWithMd(Head(entries))
                      THEN <<fullPath>>
                      ELSE <<>>
         IN  found \o FindEntries(tree, dir, Tail(entries))

RECURSIVE FilesAmong(_, _, _)
FilesAmong(tree, dir, entries) ==
    IF entries = <<>> THEN <<>>
    ELSE (IF NodeAt(tree, Append(dir, Head(entries))).kind = "file"
             /\ EndsWithMd(Head(entries))
          THEN <<Append(dir, Head(entries))>> ELSE <<>>)
         \o FilesAmong(tree, dir, Tail(entries))

RECURSIVE SubdirFiles(_, _, _)
SubdirFiles(tree, dir, entries) ==
    IF entries = <<>> THEN <<>>
    ELSE (IF NodeAt(tree, Append(dir, Head(entries))).kind = "dir"
          THEN FindEntries(tree, Append(dir, Head(entries)),
                           NodeAt(tree, Append(dir, Head(entries))).entries)
          ELSE <<>>)
         \o SubdirFiles(tree, dir, Tail(entries))

\* Mutant: the files of the directory come first, its subdirectories after.
FindMarkdownFiles_FilesFirst(tree, dir) ==
    FilesAmong(tree, dir, NodeAt(tree, dir).entries)
        \o SubdirFiles(tree, dir, NodeAt(tree, dir).entries)

\* Mutant: subdirectories are not searched.
FindMarkdownFiles_TopLevel(tree, dir) == FilesAmong(tree, dir, NodeAt(tree, dir).entries)

FindMarkdownFiles(tree, dir) == FindEntries(tree, dir, NodeAt(tree, dir).entries)

\* Mutant: only the files directly under the references directory are excluded.
IsExcluded_RootOnly(relativePath) ==
    Len(relativePath) = 1 /\ Includes(EXCLUDED_FILES, relativePath[1])

\* EXCLUDED_FILES.includes(relativePath.split("/").pop() || "")
IsExcluded(relativePath) ==
    Includes(EXCLUDED_FILES, IF relativePath = <<>> THEN "" ELSE Last(relativePath))

\* The loop of validateAll and of validateCategory over the files found.
RECURSIVE ValidateEach(_, _)
ValidateEach(tree, files) ==
    IF files = <<>> THEN Returned(<<>>, <<>>)
    ELSE LET relativePath == Head(files)
         IN  IF IsExcluded(relativePath) THEN ValidateEach(tree, Tail(files))
             ELSE LET one  == ValidateFileOn(tree, relativePath)
                      rest == ValidateEach(tree, Tail(files))
                  IN  IF one.status = "throw" \/ rest.status = "throw" THEN Thrown
                      ELSE Returned(one.results \o rest.results,
                                    one.statted \o rest.statted)

\* validateAll(): readdir rejects unless the references directory is one.
ValidateAllOn(tree) ==
    IF NodeAt(tree, <<>>).kind # "dir" THEN Thrown
    ELSE ValidateEach(tree, FindMarkdownFiles(tree, <<>>))

\* Mutant: the rejection of stat is not caught.
ValidateCategoryOn_Propagate(tree, category) ==
    IF NodeAt(tree, category).kind # "dir" THEN Thrown
    ELSE ValidateEach(tree, FindMarkdownFiles(tree, category))

\* Mutant: the search starts at the references directory, not at the category.
ValidateCategoryOn_WholeTree(tree, category) ==
    LET node == NodeAt(tree, category)
    IN  IF node.kind = "none" THEN Returned(<<>>, <<>>)
        ELSE IF node.kind # "dir" THEN Thrown
        ELSE ValidateEach(tree, FindMarkdownFiles(tree, <<>>))

\* validateCategory(category): [] when stat rejects; readdir rejects on a file.
ValidateCategoryOn(tree, category) ==
    LET node == NodeAt(tree, category)
    IN  IF node.kind = "none" THEN Returned(<<>>, <<>>)
        ELSE IF node.kind # "dir" THEN Thrown
        ELSE ValidateEach(tree, FindMarkdownFiles(tree, category))

---------------------------------------------------------------------------
(* Documents *)

H1Line == <<"#", " ", "x", "\n">>

TableBlock == <<"|", "x", "|", "\n", "|", "-", "|", "\n">>

Link(target) == <<"[", "x", "]", "(">> \o target \o <<")">>

\* One heading, one table.
GoodText == H1Line \o TableBlock

\* No top-level heading, no table.
BadText == <<"#", "#", " ", "x", "\n">>

\* A good document with links to ./b.md, ../b.md, hooks/b.md, ./README.md, an
\* external URL and an anchor.
LinkyText ==
    GoodText \o Link(<<".", "/", "b.md">>) \o Link(<<".", ".", "/", "b.md">>)
             \o Link(<<"hooks", "/", "b.md">>) \o Link(<<".", "/", "README.md">>)
             \o Link(<<"https://", "b.md">>) \o Link(<<"#", "b.md">>)

\* The texts the environment writes to a path: any of the three to a.md, a
\* passing or a failing one to README.md, a failing one elsewhere.
TreeTexts(path) ==
    IF Last(path) = "a.md" THEN {GoodText, BadText, LinkyText}
    ELSE IF Last(path) = "README.md" THEN {GoodText, BadText}
    ELSE {BadText}

\* The pieces that generated documents are made of.
Blocks ==
    {H1Line, <<"#">>, <<"\n">>, <<" ">>, <<"x">>,
     <<"|", "x", "|">>, <<"|", "-", "|">>, <<"|">>, TableBlock,
     <<"FENCE", "\n">>,
     Link(<<".", "/", "b.md">>), Link(<<".", "/", "index.md">>),
     Link(<<"https://", "b.md">>), Link(<<"#", "x">>)}

RECURSIVE TextsOf(_)
TextsOf(n) ==
    IF n = 0 THEN {<<>>}
    ELSE LET shorter == TextsOf(n - 1)
         IN  shorter \cup {t \o b : t \in shorter, b \in Blocks}

\* A fenced code block that holds a heading line, a link to a missing
\* document and a table.
FencedBlock ==
    <<"FENCE", "\n">> \o H1Line \o Link(<<".", "/", "index.md">>) \o <<"\n">>
        \o TableBlock \o <<"FENCE", "\n">>

\* The fenced block between two pieces, or none.
FencedTexts == {pre \o FencedBlock \o post : pre \in TextsOf(1), post \in TextsOf(1)}

DocTexts == TextsOf(MaxBlocks) \cup FencedTexts

\* Fillers that bring a text to the sizes around the two thresholds.
Pads(text) ==
    {0} \cup {size - TextBytes(text) :
                size \in {SIZE_WARN_THRESHOLD, SIZE_WARN_THRESHOLD + 1,
                          SIZE_ERROR_THRESHOLD, SIZE_ERROR_THRESHOLD + 1}}

---------------------------------------------------------------------------
(* State *)

\* Nothing is under way in the operations that the specification at hand
\* does not run.
NoFetch ==
    [op |-> "none", limit |-> 0, status |-> "none",
     docs |-> <<>>, releases |-> <<>>, error |-> <<>>]

NetIdle ==
    /\ server = [docs |-> 0, releases |-> 0, data |-> <<>>]
    /\ fetched = NoFetch

CliIdle ==
    /\ plugin = [skillsDir |-> "none", entries |-> <<>>, skills |-> <<>>]
    /\ cli = [args |-> <<>>, exit |-> -1]

ElsewhereIdle ==
    /\ contentRead = Absent
    /\ NetIdle
    /\ CliIdle

NoCall == [op |-> "none", path |-> <<>>]

NoRet == [status |-> "none", results |-> <<>>, statted |-> <<>>]

EmptyTree == [p \in AllPaths |-> IF p = <<>> THEN DirNode(<<>>) ELSE Absent]

\* A fresh, empty references directory (mkdtemp in the tests).
Init ==
    /\ fs = EmptyTree
    /\ call = NoCall
    /\ ret = NoRet
    /\ pending = <<>>
    /\ ElsewhereIdle

FileCount == Cardinality({p \in FilePaths : fs[p].kind = "file"})

---------------------------------------------------------------------------
(* The environment: writeFile, mkdir and rm on the tree, between calls.    *)
(* A new entry may land anywhere in the listing of its directory.          *)

WriteFile(path, text) ==
    /\ fs[Parent(path)].kind = "dir"
    /\ \/ /\ fs[path].kind = "file"
          /\ fs' = [fs EXCEPT ![path] = FileNode(text, 0)]
       \/ /\ fs[path].kind = "none"
          /\ FileCount < MaxFiles
          /\ \E k \in 1..(Len(fs[Parent(path)].entries) + 1) :
                fs' = [fs EXCEPT ![path] = FileNode(text, 0),
                                 ![Parent(path)].entries = InsertAt(@, k, Last(path))]
    /\ call' = NoCall
    /\ ret' = NoRet
    /\ pending' = <<>>
    /\ UNCHANGED elsewhere

Mkdir(path) ==
    /\ fs[Parent(path)].kind = "dir"
    /\ fs[path].kind = "none"
    /\ \E k \in 1..(Len(fs[Parent(path)].entries) + 1) :
          fs' = [fs EXCEPT ![path] = DirNode(<<>>),
                           ![Parent(path)].entries = InsertAt(@, k, Last(path))]
    /\ call' = NoCall
    /\ ret' = NoRet
    /\ pending' = <<>>
    /\ UNCHANGED elsewhere

Remove(path) ==
    /\ fs[path].kind # "none"
    /\ fs[path].entries = <<>>
    /\ fs' = [fs EXCEPT ![path] = Absent,
                        ![Parent(path)].entries = RemoveElem(@, Last(path))]
    /\ call' = NoCall
    /\ ret' = NoRet
    /\ pending' = <<>>
    /\ UNCHANGED elsewhere

---------------------------------------------------------------------------
(* The calls *)

\* Mutant: the document is opened for appending, which creates it when missing.
ValidateFile_CreatesMissing(relativePath) ==
    /\ call' = [op |-> "validateFile", path |-> relativePath]
    /\ ret' = ValidateFileOn(fs, relativePath)
    /\ pending' = <<>>
    /\ fs' = IF relativePath \in FilePaths /\ fs[relativePath].kind = "none"
                 /\ fs[Parent(relativePath)].kind = "dir"
              THEN [fs EXCEPT ![relativePath] = FileNode(<<>>, 0),
                              ![Parent(relativePath)].entries = Append(@, Last(relativePath))]
              ELSE fs
    /\ UNCHANGED elsewhere

\* Mutant: the validator keeps the result of a document and answers with it
\* when asked about the same document again.
ValidateFile_Cached(relativePath) ==
    /\ call' = [op |-> "validateFile", path |-> relativePath]
    /\ ret' = IF /\ ret.status = "ok"
                 /\ Len(ret.results) = 1
                 /\ ret.results[1].path = relativePath
              THEN ret
              ELSE ValidateFileOn(fs, relativePath)
    /\ pending' = <<>>
    /\ UNCHANGED fs
    /\ UNCHANGED elsewhere

ValidateFile(relativePath) ==
    /\ call' = [op |-> "validateFile", path |-> relativePath]
    /\ ret' = ValidateFileOn(fs, relativePath)
    /\ pending' = <<>>
    /\ UNCHANGED fs
    /\ UNCHANGED elsewhere

\* Mutant: the results are kept in the validator and pile up from call to call.
ValidateAll_KeepsResults ==
    /\ call' = [op |-> "validateAll", path |-> <<>>]
    /\ ret' = [ValidateAllOn(fs) EXCEPT !.results = ret.results \o @]
    /\ pending' = <<>>
    /\ UNCHANGED fs
    /\ UNCHANGED elsewhere

ValidateAll ==
    /\ call' = [op |-> "validateAll", path |-> <<>>]
    /\ ret' = ValidateAllOn(fs)
    /\ pending' = <<>>
    /\ UNCHANGED fs
    /\ UNCHANGED elsewhere

ValidateCategory(category) ==
    /\ call' = [op |-> "validateCategory", path |-> category]
    /\ ret' = ValidateCategoryOn(fs, category)
    /\ pending' = <<>>
    /\ UNCHANGED fs
    /\ UNCHANGED elsewhere

\* The arguments the calls are made with.
FileArgs ==
    {<<"a.md">>, <<"README.md">>, <<"hooks", "a.md">>, <<"hooks", "deep", "a.md">>,
     <<"hooks">>}

CategoryArgs == {<<"hooks">>, <<"plugins">>, <<"a.md">>}

Next ==
    \/ \E path \in FilePaths : \E text \in TreeTexts(path) : WriteFile(path, text)
    \/ \E path \in DirPaths \ {<<>>} : Mkdir(path)
    \/ \E path \in AllPaths \ {<<>>} : Remove(path)
    \/ \E path \in FileArgs : ValidateFile(path)
    \/ ValidateAll
    \/ \E category \in CategoryArgs : ValidateCategory(category)

Spec == Init /\ [][Next]_vars

---------------------------------------------------------------------------
(* One document, of any generated text and size, at the root and in a      *)
(* category, beside an existing b.md.                                      *)

DocTree(text, pad) ==
    [p \in AllPaths |->
        IF p = <<>> THEN DirNode(<<"a.md", "b.md", "hooks">>)
        ELSE IF p = <<"hooks">> THEN DirNode(<<"a.md">>)
        ELSE IF p \in {<<"a.md">>, <<"hooks", "a.md">>} THEN FileNode(text, pad)
        ELSE IF p = <<"b.md">> THEN FileNode(GoodText, 0)
        ELSE Absent]

InitDoc ==
    /\ \E text \in DocTexts : \E pad \in Pads(text) : fs = DocTree(text, pad)
    /\ call = NoCall
    /\ ret = NoRet
    /\ pending = <<>>
    /\ ElsewhereIdle

NextDoc ==
    \/ \E path \in {<<"a.md">>, <<"hooks", "a.md">>} : ValidateFile(path)
    \/ ValidateAll
    \/ ValidateCategory(<<"hooks">>)

SpecDoc == InitDoc /\ [][NextDoc]_vars

---------------------------------------------------------------------------
(* validateAll and validateCategory step by step: the discovery, then one  *)
(* turn of the for loop per file found, each awaiting validateFile, then   *)
(* the return.  pending holds the files found that the loop has not        *)
(* reached yet; between two turns a document may be removed.               *)

Running == ret.status = "running"

Started == [status |-> "running", results |-> <<>>, statted |-> <<>>]

\* validateAll up to its loop: findMarkdownFiles(referencesDir).
StartValidateAll ==
    /\ ~Running
    /\ call' = [op |-> "validateAll", path |-> <<>>]
    /\ IF NodeAt(fs, <<>>).kind # "dir"
       THEN ret' = Thrown /\ pending' = <<>>
       ELSE ret' = Started /\ pending' = FindMarkdownFiles(fs, <<>>)
    /\ UNCHANGED fs
    /\ UNCHANGED elsewhere

\* validateCategory up to its loop: stat, then findMarkdownFiles(categoryPath).
StartValidateCategory(category) ==
    /\ ~Running
    /\ call' = [op |-> "validateCategory", path |-> category]
    /\ IF NodeAt(fs, category).kind = "none"
       THEN ret' = Returned(<<>>, <<>>) /\ pending' = <<>>
       ELSE IF NodeAt(fs, category).kind # "dir"
       THEN ret' = Thrown /\ pending' = <<>>
       ELSE ret' = Started /\ pending' = FindMarkdownFiles(fs, category)
    /\ UNCHANGED fs
    /\ UNCHANGED elsewhere

\* Mutant: a document that cannot be read is skipped and the loop goes on.
ValidateNext_SkipsUnreadable ==
    /\ Running
    /\ pending # <<>>
    /\ LET relativePath == Head(pending)
           one == ValidateFileOn(fs, relativePath)
       IN  IF IsExcluded(relativePath) \/ one.status = "throw"
           THEN ret' = ret /\ pending' = Tail(pending)
           ELSE /\ ret' = [ret EXCEPT !.results = @ \o one.results,
                                      !.statted = @ \o one.statted]
                /\ pending' = Tail(pending)
    /\ UNCHANGED <<fs, call>>
    /\ UNCHANGED elsewhere

\* One turn of the loop: the file is skipped when excluded, else validated;
\* a rejection of validateFile ends the call.
ValidateNext ==
    /\ Running
    /\ pending # <<>>
    /\ LET relativePath == Head(pending)
           one == ValidateFileOn(fs, relativePath)
       IN  IF IsExcluded(relativePath)
           THEN ret' = ret /\ pending' = Tail(pending)
           ELSE IF one.status = "throw"
           THEN ret' = Thrown /\ pending' = <<>>
           ELSE /\ ret' = [ret EXCEPT !.results = @ \o one.results,
                                      !.statted = @ \o one.statted]
                /\ pending' = Tail(pending)
    /\ UNCHANGED <<fs, call>>
    /\ UNCHANGED elsewhere

\* return results
ReturnResults ==
    /\ Running
    /\ pending = <<>>
    /\ ret' = Returned(ret.results, ret.statted)
    /\ UNCHANGED <<fs, call, pending>>
    /\ UNCHANGED elsewhere

\* Another process removes a document while the call is running.
RemoveDuring(path) ==
    /\ Running
    /\ fs[path].kind = "file"
    /\ fs' = [fs EXCEPT ![path] = Absent,
                        ![Parent(path)].entries = RemoveElem(@, Last(path))]
    /\ UNCHANGED <<call, ret, pending>>
    /\ UNCHANGED elsewhere

BatchCategories == {<<"hooks">>, <<"plugins">>}

NextBatch ==
    \/ ~Running /\ \E path \in FilePaths : \E text \in TreeTexts(path) : WriteFile(path, text)
    \/ ~Running /\ \E path \in DirPaths \ {<<>>} : Mkdir(path)
    \/ \E path \in FilePaths : RemoveDuring(path)
    \/ StartValidateAll
    \/ \E category \in BatchCategories : StartValidateCategory(category)
    \/ ValidateNext
    \/ ReturnResults

SpecBatch == Init /\ [][NextBatch]_vars

---------------------------------------------------------------------------
(* A tree of several documents at three depths, with every order in which  *)
(* the listings of its directories may come back.                          *)

WalkFiles ==
    {<<"a.md">>, <<"b.md">>, <<"README.md">>,
     <<"hooks", "a.md">>, <<"hooks", "b.md">>, <<"hooks", "deep", "a.md">>}

\* The names directly under dir in a tree that holds these files.
ChildrenIn(files, dir) ==
    {p[Len(dir) + 1] : p \in {q \in files : /\ Len(q) > Len(dir)
                                              /\ SubSeq(q, 1, Len(dir)) = dir}}

\* The orders in which readdir may return a set of names.
Orders(names) ==
    {order \in [1..Cardinality(names) -> names] :
        \A i, j \in 1..Cardinality(names) : order[i] = order[j] => i = j}

WalkTree(files, listing) ==
    [p \in AllPaths |->
        IF p \in files THEN FileNode(BadText, 0)
        ELSE IF p \in DirPaths /\ (p = <<>> \/ ChildrenIn(files, p) # {})
        THEN DirNode(listing[p])
        ELSE Absent]

InitWalk ==
    /\ \E files \in SUBSET WalkFiles :
          \E root \in Orders(ChildrenIn(files, <<>>)),
             hooks \in Orders(ChildrenIn(files, <<"hooks">>)),
             deep \in Orders(ChildrenIn(files, <<"hooks", "deep">>)) :
              fs = WalkTree(files, [p \in DirPaths |->
                                      IF p = <<>> THEN root
                                      ELSE IF p = <<"hooks">> THEN hooks
                                      ELSE IF p = <<"hooks", "deep">> THEN deep
                                      ELSE <<>>])
    /\ call = NoCall
    /\ ret = NoRet
    /\ pending = <<>>
    /\ ElsewhereIdle

NextWalk ==
    \/ ValidateAll
    \/ ValidateCategory(<<"hooks">>)

SpecWalk == InitWalk /\ [][NextWalk]_vars

---------------------------------------------------------------------------
(* One validator used again and again while the tree changes between its   *)
(* calls.  The validator lives on between the calls: ret, its last answer, *)
(* stays as it is when the tree is modified, and no call is under way.     *)

FreshPaths == {<<"a.md">>, <<"b.md">>, <<"hooks", "a.md">>, <<"hooks", "b.md">>}

InitFresh ==
    /\ fs = [EmptyTree EXCEPT ![<<>>] = DirNode(<<"hooks">>),
                              ![<<"hooks">>] = DirNode(<<>>)]
    /\ call = NoCall
    /\ ret = NoRet
    /\ pending = <<>>
    /\ ElsewhereIdle

WriteBetween(path, text) ==
    /\ fs[Parent(path)].kind = "dir"
    /\ \/ /\ fs[path].kind = "file"
          /\ fs' = [fs EXCEPT ![path] = FileNode(text, 0)]
       \/ /\ fs[path].kind = "none"
          /\ FileCount < MaxFiles
          /\ fs' = [fs EXCEPT ![path] = FileNode(text, 0),
                              ![Parent(path)].entries = Append(@, Last(path))]
    /\ call' = NoCall
    /\ UNCHANGED <<ret, pending>>
    /\ UNCHANGED elsewhere

RemoveBetween(path) ==
    /\ fs[path].kind = "file"
    /\ fs' = [fs EXCEPT ![path] = Absent,
                        ![Parent(path)].entries = RemoveElem(@, Last(path))]
    /\ call' = NoCall
    /\ UNCHANGED <<ret, pending>>
    /\ UNCHANGED elsewhere

NextFresh ==
    \/ \E path \in FreshPaths : \E text \in TreeTexts(path) : WriteBetween(path, text)
    \/ \E path \in FreshPaths : RemoveBetween(path)
    \/ \E path \in {<<"a.md">>, <<"hooks", "a.md">>} : ValidateFile(path)
    \/ ValidateAll
    \/ ValidateCategory(<<"hooks">>)

SpecFresh == InitFresh /\ [][NextFresh]_vars

---------------------------------------------------------------------------
(* validateFile step by step: readFile, then stat and the rules, while     *)
(* another process rewrites or truncates the document.  contentRead is the *)
(* file as readFile found it, its text being the content the rules scan.   *)

RaceTexts == {<<>>, GoodText, BadText, LinkyText}

InitRace ==
    /\ \E text \in RaceTexts : \E pad \in Pads(text) : fs = DocTree(text, pad)
    /\ call = NoCall
    /\ ret = NoRet
    /\ pending = <<>>
    /\ ElsewhereIdle

\* const content = await readFile(fullPath, "utf-8")
ReadDocument(relativePath) ==
    /\ ~Running
    /\ call' = [op |-> "validateFile", path |-> relativePath]
    /\ IF NodeAt(fs, relativePath).kind # "file"
       THEN ret' = Thrown /\ contentRead' = Absent
       ELSE ret' = Started /\ contentRead' = NodeAt(fs, relativePath)
    /\ UNCHANGED <<fs, pending, netVars, cliVars>>

\* const fileStats = await stat(fullPath), then the rules and the return.
StatAndJudge ==
    /\ Running
    /\ call.op = "validateFile"
    /\ LET fileStats == NodeAt(fs, call.path)
           run == RunRules(fs, ContentOf(contentRead), SizeOf(fileStats), call.path)
       IN  IF fileStats.kind = "none" THEN ret' = Thrown
           ELSE ret' = Returned(<<run.result>>, run.statted)
    /\ UNCHANGED <<fs, call, pending, contentRead, netVars, cliVars>>

\* Another process writes the document anew, longer, shorter or empty.
Rewrite(path, text, pad) ==
    /\ fs[path].kind = "file"
    /\ fs' = [fs EXCEPT ![path] = FileNode(text, pad)]
    /\ UNCHANGED <<call, ret, pending, contentRead, netVars, cliVars>>

NextRace ==
    \/ \E path \in {<<"a.md">>, <<"hooks", "a.md">>} : ReadDocument(path)
    \/ StatAndJudge
    \/ \E path \in {<<"a.md">>, <<"hooks", "a.md">>} :
          \E text \in RaceTexts : \E pad \in Pads(text) : Rewrite(path, text, pad)

SpecRace == InitRace /\ [][NextRace]_vars

---------------------------------------------------------------------------
(* TDDValidator.  The services directory is a tree like the references     *)
(* directory; here a file name is the sequence of its pieces, so that      *)
(* "a.test.ts" is <<"a", ".test", ".ts">> and the tests of its ending and  *)
(* the replacement of ".ts" work on the name itself.                       *)

TDD_EXCLUDED_FILES == {<<"index", ".ts">>}

\* entry.name.endsWith(".ts")
EndsWithTs(name) == name # <<>> /\ name[Len(name)] = ".ts"

\* entry.name.endsWith(".test.ts")
EndsWithTestTs(name) ==
    Len(name) >= 2 /\ name[Len(name)] = ".ts" /\ name[Len(name) - 1] = ".test"

\* relativePath.replace(/\.ts$/, ".test.ts")
ReplaceTs(relativePath) ==
    LET name == Last(relativePath)
    IN  IF EndsWithTs(name)
        THEN Append(Parent(relativePath), SubSeq(name, 1, Len(name) - 1) \o <<".test", ".ts">>)
        ELSE relativePath

WordPieces == {"x", "describe", "it", "test"}

\* /\b(describe|it|test)\s*\(/ from position i: the blanks, then the bracket.
RECURSIVE BracketFollows(_, _)
BracketFollows(testContent, i) ==
    IF i > Len(testContent) THEN FALSE
    ELSE IF testContent[i] \in {" ", "\n"} THEN BracketFollows(testContent, i + 1)
    ELSE testContent[i] = "("

HasTestBlocks(testContent) ==
    \E i \in 1..Len(testContent) :
        /\ testContent[i] \in {"describe", "it", "test"}
        /\ i = 1 \/ testContent[i - 1] \notin WordPieces
        /\ BracketFollows(testContent, i + 1)

\* No test path.
Null == <<>>

MissingIssue(testPath) == <<"Test file missing: ">> \o testPath

NoTestsIssue == <<"Test file appears to have no tests (no describe/it/test blocks)">>

\* A rejected readFile of the test file rejects validateServiceFile.
ValidateServiceFile(tree, relativePath) ==
    LET testPath == ReplaceTs(relativePath)
        node == NodeAt(tree, testPath)
        hasTest == node.kind # "none"
    IN  IF hasTest /\ node.kind # "file" THEN Thrown
        ELSE Returned(<<[path |-> relativePath,
                         hasTest |-> hasTest,
                         testPath |-> IF hasTest THEN testPath ELSE Null,
                         issues |-> IF ~hasTest THEN <<MissingIssue(testPath)>>
                                    ELSE IF ~HasTestBlocks(ContentOf(node))
                                    THEN <<NoTestsIssue>>
                                    ELSE <<>>]>>, <<>>)

\* Mutant: index.ts is taken for a service file like any other.
IsServiceName_WithIndex(name) == EndsWithTs(name) /\ ~EndsWithTestTs(name)

IsServiceName(name) ==
    EndsWithTs(name) /\ ~EndsWithTestTs(name) /\ name \notin TDD_EXCLUDED_FILES

\* The loop of findServiceFiles(dir) over the entries still to visit.
RECURSIVE FindServiceEntries(_, _, _)
FindServiceEntries(tree, dir, entries) ==
    IF entries = <<>> THEN <<>>
    ELSE LET fullPath == Append(dir, Head(entries))
             node == NodeAt(tree, fullPath)
             found == IF node.kind = "dir"
                      THEN FindServiceEntries(tree, fullPath, node.entries)
                      ELSE IF node.kind = "file" /\ IsServiceName(Head(entries))
                      THEN <<fullPath>>
                      ELSE <<>>
         IN  found \o FindServiceEntries(tree, dir, Tail(entries))

FindServiceFiles(tree, dir) == FindServiceEntries(tree, dir, NodeAt(tree, dir).entries)

\* The for loop of validateAll: a rejection ends it.
RECURSIVE ValidateServices(_, _)
ValidateServices(tree, serviceFiles) ==
    IF serviceFiles = <<>> THEN Returned(<<>>, <<>>)
    ELSE LET one == ValidateServiceFile(tree, Head(serviceFiles))
             others == ValidateServices(tree, Tail(serviceFiles))
         IN  IF one.status = "throw" \/ others.status = "throw" THEN Thrown
             ELSE Returned(one.results \o others.results, <<>>)

TDDValidateAllOn(tree) ==
    IF NodeAt(tree, <<>>).kind # "dir" THEN Thrown
    ELSE ValidateServices(tree, FindServiceFiles(tree, <<>>))

\* Mutant: a service is missing its tests when its result has issues.
FindMissingTestsOn_ByIssues(tree) ==
    LET all == TDDValidateAllOn(tree)
        missing == SelectSeq(all.results, LAMBDA r : r.issues # <<>>)
    IN  IF all.status = "throw" THEN Thrown
        ELSE Returned([k \in 1..Len(missing) |-> missing[k].path], <<>>)

\* results.filter((r) => !r.hasTest).map((r) => r.path)
FindMissingTestsOn(tree) ==
    LET all == TDDValidateAllOn(tree)
        missing == SelectSeq(all.results, LAMBDA r : ~r.hasTest)
    IN  IF all.status = "throw" THEN Thrown
        ELSE Returned([k \in 1..Len(missing) |-> missing[k].path], <<>>)

---------------------------------------------------------------------------
(* A services directory: a.ts, a.test.ts, index.ts and a.md at the top,    *)
(* b.ts, b.test.ts and index.ts under gen/, each there or not; a test file *)
(* holds any of the test texts, and a.test.ts may be a directory.          *)

TestTextsWithCalls ==
    {<<"describe", "(", "x", ")">>,
     <<"it", " ", "(", "x", ")">>,
     <<"x", ".", "test", "\n", "(", ")">>}

TestTextsWithoutCalls ==
    {<<>>,
     <<"/", "/", " ", "x", "\n">>,
     <<"x", "it", "(", ")">>,
     <<"test", "x", "(", ")">>,
     <<"describe", " ", "x">>}

TestTexts == TestTextsWithCalls \cup TestTextsWithoutCalls

RootNames ==
    <<(<<"a", ".ts">>), (<<"a", ".test", ".ts">>), (<<"index", ".ts">>),
      (<<"gen">>), (<<"a", ".md">>)>>

GenNames == <<(<<"b", ".test", ".ts">>), (<<"b", ".ts">>), (<<"index", ".ts">>)>>

ServicePaths ==
    {<<>>} \cup {<<RootNames[k]>> : k \in 1..Len(RootNames)}
           \cup {<<(<<"gen">>), GenNames[k]>> : k \in 1..Len(GenNames)}

SourceFile == FileNode(<<"x">>, 0)

TestFiles == {FileNode(text, 0) : text \in TestTexts}

\* The tree that holds the given nodes, every directory listing the names
\* that are there.
ServicesTree(nodes) ==
    [p \in ServicePaths |->
        IF p = <<>>
        THEN DirNode(SelectSeq(RootNames, LAMBDA n : nodes[<<n>>].kind # "none"))
        ELSE IF p = <<(<<"gen">>)>> /\ nodes[p].kind = "dir"
        THEN DirNode(SelectSeq(GenNames, LAMBDA n : nodes[Append(p, n)].kind # "none"))
        ELSE nodes[p]]

InitTdd ==
    /\ \E a \in {Absent, SourceFile},
          aTest \in {Absent, DirNode(<<>>)} \cup TestFiles,
          index \in {Absent, SourceFile},
          md \in {Absent, SourceFile},
          gen \in {Absent, DirNode(<<>>)},
          b \in {Absent, SourceFile},
          bTest \in {Absent} \cup TestFiles,
          genIndex \in {Absent, SourceFile} :
            /\ gen = Absent => b = Absent /\ bTest = Absent /\ genIndex = Absent
            /\ fs = ServicesTree(
                      [p \in ServicePaths |->
                          IF p = <<(<<"a", ".ts">>)>> THEN a
                          ELSE IF p = <<(<<"a", ".test", ".ts">>)>> THEN aTest
                          ELSE IF p = <<(<<"index", ".ts">>)>> THEN index
                          ELSE IF p = <<(<<"a", ".md">>)>> THEN md
                          ELSE IF p = <<(<<"gen">>)>> THEN gen
                          ELSE IF p = <<(<<"gen">>), (<<"b", ".ts">>)>> THEN b
                          ELSE IF p = <<(<<"gen">>), (<<"b", ".test", ".ts">>)>> THEN bTest
                          ELSE IF p = <<(<<"gen">>), (<<"index", ".ts">>)>> THEN genIndex
                          ELSE Absent])
    /\ call = NoCall
    /\ ret = NoRet
    /\ pending = <<>>
    /\ ElsewhereIdle

TDDValidateAll ==
    /\ call' = [op |-> "TDDValidator.validateAll", path |-> <<>>]
    /\ ret' = TDDValidateAllOn(fs)
    /\ UNCHANGED <<fs, pending>>
    /\ UNCHANGED elsewhere

FindMissingTests ==
    /\ call' = [op |-> "TDDValidator.findMissingTests", path |-> <<>>]
    /\ ret' = FindMissingTestsOn(fs)
    /\ UNCHANGED <<fs, pending>>
    /\ UNCHANGED elsewhere

NextTdd ==
    \/ TDDValidateAll
    \/ FindMissingTests

SpecTdd == InitTdd /\ [][NextTdd]_vars

---------------------------------------------------------------------------
(* DocsFetcher.  server holds what the two servers answer: a status each,  *)
(* and the releases in the body of a successful answer; fetched is the     *)
(* last call of the fetcher with what it gave back.                        *)

OFFICIAL_DOCS_URL == "https://code.claude.com/docs/llms.txt"

DEFAULT_RELEASE_LIMIT == 20

\* The promise of fetch rejects: there is no response.
NetworkError == 0

Statuses == {200, 403, 404, 500, NetworkError}

\* response.ok
ResponseOk(status) == status >= 200 /\ status <= 299

Tags == {"v1", "v2", "v3"}

GitHubRelease(tag) ==
    [tag_name |-> tag, name |-> tag, body |-> "notes",
     published_at |-> "2025-01-01T00:00:00Z", html_url |-> "url"]

ToRelease(release) ==
    [tagName |-> release.tag_name, name |-> release.name, body |-> release.body,
     publishedAt |-> [date |-> release.published_at], url |-> release.html_url]

\* data.slice(0, limit)
Slice(data, limit) ==
    LET end == IF limit < 0
               THEN (IF Len(data) + limit < 0 THEN 0 ELSE Len(data) + limit)
               ELSE (IF limit > Len(data) THEN Len(data) ELSE limit)
    IN  SubSeq(data, 1, end)

Rejected(op, limit, error) ==
    [op |-> op, limit |-> limit, status |-> "throw",
     docs |-> <<>>, releases |-> <<>>, error |-> <<error>>]

Resolved(op, limit, docs, releases) ==
    [op |-> op, limit |-> limit, status |-> "ok",
     docs |-> docs, releases |-> releases, error |-> <<>>]

FetchFailed == [text |-> "fetch failed", status |-> NetworkError]

FetchOfficialDocsOn(srv) ==
    IF srv.docs = NetworkError THEN Rejected("fetchOfficialDocs", 0, FetchFailed)
    ELSE IF ~ResponseOk(srv.docs)
    THEN Rejected("fetchOfficialDocs", 0,
                  [text |-> "Failed to fetch official docs: ", status |-> srv.docs])
    ELSE Resolved("fetchOfficialDocs", 0,
                  <<[content |-> "llms", source |-> "llms.txt",
                     url |-> OFFICIAL_DOCS_URL, fetchedAt |-> "now"]>>, <<>>)

\* Mutant: a 404 of the releases server is a failure like any other.
FetchGitHubReleasesOn_NotFoundFails(srv, limit) ==
    IF srv.releases = NetworkError THEN Rejected("fetchGitHubReleases", limit, FetchFailed)
    ELSE IF ~ResponseOk(srv.releases)
    THEN Rejected("fetchGitHubReleases", limit,
                  [text |-> "Failed to fetch GitHub releases: ", status |-> srv.releases])
    ELSE Resolved("fetchGitHubReleases", limit, <<>>,
                  [k \in 1..Len(Slice(srv.data, limit)) |-> ToRelease(Slice(srv.data, limit)[k])])

FetchGitHubReleasesOn(srv, limit) ==
    IF srv.releases = NetworkError THEN Rejected("fetchGitHubReleases", limit, FetchFailed)
    ELSE IF srv.releases = 404 THEN Resolved("fetchGitHubReleases", limit, <<>>, <<>>)
    ELSE IF ~ResponseOk(srv.releases)
    THEN Rejected("fetchGitHubReleases", limit,
                  [text |-> "Failed to fetch GitHub releases: ", status |-> srv.releases])
    ELSE Resolved("fetchGitHubReleases", limit, <<>>,
                  [k \in 1..Len(Slice(srv.data, limit)) |-> ToRelease(Slice(srv.data, limit)[k])])

\* Promise.all of the two fetches: what fetchAll may give back.  When both
\* reject, the rejection is that of the one that rejects first.
FetchAllOn(srv, limit) ==
    LET docs == FetchOfficialDocsOn(srv)
        releases == FetchGitHubReleasesOn(srv, limit)
    IN  IF docs.status = "ok" /\ releases.status = "ok"
        THEN {Resolved("fetchAll", limit, docs.docs, releases.releases)}
        ELSE {Rejected("fetchAll", limit, one.error[1]) :
                 one \in {f \in {docs, releases} : f.status = "throw"}}

ReleaseLists(n) ==
    UNION {[1..k -> {GitHubRelease(tag) : tag \in Tags}] : k \in 0..n}

InitNet ==
    /\ fs = EmptyTree
    /\ call = NoCall
    /\ ret = NoRet
    /\ pending = <<>>
    /\ contentRead = Absent
    /\ CliIdle
    /\ \E docs \in Statuses, releases \in Statuses, data \in ReleaseLists(MaxReleases) :
          /\ releases # 200 => data = <<>>
          /\ server = [docs |-> docs, releases |-> releases, data |-> data]
    /\ fetched = NoFetch

FetchOfficialDocs ==
    /\ fetched' = FetchOfficialDocsOn(server)
    /\ UNCHANGED <<fs, call, ret, pending, contentRead, server, cliVars>>

FetchGitHubReleases(limit) ==
    /\ fetched' = FetchGitHubReleasesOn(server, limit)
    /\ UNCHANGED <<fs, call, ret, pending, contentRead, server, cliVars>>

FetchAll(releaseLimit) ==
    /\ fetched' \in FetchAllOn(server, releaseLimit)
    /\ UNCHANGED <<fs, call, ret, pending, contentRead, server, cliVars>>

\* The limits the calls are made with, the default among them.
Limits == 0..(MaxReleases + 1) \cup {DEFAULT_RELEASE_LIMIT}

NextNet ==
    \/ FetchOfficialDocs
    \/ \E limit \in Limits : FetchGitHubReleases(limit)
    \/ \E releaseLimit \in Limits : FetchAll(releaseLimit)

SpecNet == InitNet /\ [][NextNet]_vars

---------------------------------------------------------------------------
(* scripts/validate-references.ts.  plugin is the skills directory of the  *)
(* plugin root: whether it is there and can be listed, its listing, and    *)
(* for every name what it is and what its references entry is; cli is the  *)
(* process: its arguments and its exit status, -1 before it has run.       *)

SkillNames == {"s1", "s2"}

NoSkill == [kind |-> "none", references |-> "none", tree |-> EmptyTree]

\* The reference directories of the skills: without documents, with valid
\* documents, with invalid ones, with a document that only draws the size
\* warning, and a file where the directory should be.
CliTrees ==
    {EmptyTree,
     DocTree(GoodText, 0),
     DocTree(BadText, 0),
     DocTree(GoodText, SIZE_WARN_THRESHOLD + 1 - TextBytes(GoodText)),
     [EmptyTree EXCEPT ![<<>>] = FileNode(<<>>, 0)]}

SkillEntries ==
    {NoSkill, [NoSkill EXCEPT !.kind = "file"]}
        \cup {[kind |-> "dir", references |-> r, tree |-> EmptyTree] :
                 r \in {"none", "unreadable"}}
        \cup {[kind |-> "dir", references |-> "there", tree |-> tree] : tree \in CliTrees}

\* args.includes("--all")
ValidateAllFlag(args) == \E i \in 1..Len(args) : args[i] = "--all"

\* a.startsWith("-"), for the arguments of the universe.
StartsWithDash(a) == a \in {"--all", "-v"}

\* args.find((a) => !a.startsWith("-")): the name found, or none.
SkillNameOf(args) ==
    LET names == SelectSeq(args, LAMBDA a : ~StartsWithDash(a))
    IN  IF names = <<>> THEN <<>> ELSE <<Head(names)>>

SkillAt(p, skillName) ==
    IF p.skillsDir # "none" /\ skillName \in DOMAIN p.skills
    THEN p.skills[skillName] ELSE NoSkill

\* stat of skills/<name>/references resolves.
StatReferences(p, skillName) ==
    SkillAt(p, skillName).kind = "dir" /\ SkillAt(p, skillName).references = "there"

\* readdir(skillsDir) in a try whose catch is empty, and for every entry
\* that is a directory a stat of its references in another such try.
FindSkillsWithReferences(p) ==
    IF p.skillsDir # "dir" THEN <<>>
    ELSE SelectSeq(p.entries,
                   LAMBDA name : /\ StatReferences(p, name)
                                 /\ NodeAt(p.skills[name].tree, <<>>).kind = "dir")

\* validateSkill: "true", "false", or "throw" when validateAll rejects.
ValidateSkill(p, skillName) ==
    IF ~StatReferences(p, skillName) THEN "false"
    ELSE LET results == ValidateAllOn(SkillAt(p, skillName).tree)
         IN  IF results.status = "throw" THEN "throw"
             ELSE IF results.results = <<>> THEN "true"
             ELSE IF \E i \in 1..Len(results.results) : results.results[i].errors # <<>>
             THEN "false"
             ELSE "true"

\* The exit status of main: 1 from process.exit(1), also from the catch of
\* main(), else 0.
MainExit(p, args) ==
    IF ~ValidateAllFlag(args) /\ SkillNameOf(args) = <<>> THEN 1
    ELSE LET skills == IF ValidateAllFlag(args) THEN FindSkillsWithReferences(p)
                       ELSE SkillNameOf(args)
         IN  IF ValidateAllFlag(args) /\ skills = <<>> THEN 0
             ELSE IF \E k \in 1..Len(skills) : ValidateSkill(p, skills[k]) # "true"
             THEN 1
             ELSE 0

InitCli ==
    /\ fs = EmptyTree
    /\ call = NoCall
    /\ ret = NoRet
    /\ pending = <<>>
    /\ contentRead = Absent
    /\ NetIdle
    /\ \E skillsDir \in {"dir", "unreadable", "none"} :
          \E skills \in [SkillNames -> SkillEntries] :
             /\ skillsDir = "none" => \A name \in SkillNames : skills[name] = NoSkill
             /\ plugin = [skillsDir |-> skillsDir,
                          entries |-> SelectSeq(<<"s1", "s2">>,
                                                LAMBDA name : skills[name].kind # "none"),
                          skills |-> skills]
    /\ cli = [args |-> <<>>, exit |-> -1]

\* The process runs to its end.
Main(args) ==
    /\ cli' = [args |-> args, exit |-> MainExit(plugin, args)]
    /\ UNCHANGED <<fs, call, ret, pending, contentRead, netVars, plugin>>

CliArgs ==
    {<<>>, <<"-v">>, <<"--all">>, <<"s1">>, <<"s3">>, <<"--all", "s1">>, <<"-v", "s2">>}

NextCli == \E args \in CliArgs : Main(args)

SpecCli == InitCli /\ [][NextCli]_vars

---------------------------------------------------------------------------
(* Vocabulary of the properties *)

AnyReturned == ret.status = "ok"

FileReturned == call.op = "validateFile" /\ ret.status = "ok"

BatchReturned == call.op \in {"validateAll", "validateCategory"} /\ ret.status = "ok"

\* The result of the validateFile call that returned, and what it read.
TheResult == ret.results[1]

TheContent == ContentOf(NodeAt(fs, call.path))

TheSize == SizeOf(NodeAt(fs, call.path))

HasFinding(findings, rule) == \E i \in 1..Len(findings) : findings[i].rule = rule

RulesOf(findings) == [i \in 1..Len(findings) |-> findings[i].rule]

CountFindings(findings, rule) ==
    Cardinality({i \in 1..Len(findings) : findings[i].rule = rule})

\* The message has the text <digit>KB in it.
MentionsKB(message, digit) ==
    \E i \in 1..(Len(message) - 1) : message[i] = digit /\ message[i + 1] = "KB"

HasPiece(message, piece) == \E i \in 1..Len(message) : message[i] = piece

\* The message has the tokens of `text' in it, in a row.
ContainsText(message, text) ==
    \E i \in 0..(Len(message) - Len(text)) :
        \A j \in 1..Len(text) : message[i + j] = text[j]

OtherRules == {"table-first", "single-h1", "valid-links"}

---------------------------------------------------------------------------
(* C1: every ValidationResult that validateFile, validateAll or            *)
(* validateCategory returns has valid = (errors is empty), whatever its    *)
(* warnings are.                                                           *)

C1_ValidIffNoErrors ==
    AnyReturned =>
        \A i \in 1..Len(ret.results) :
            ret.results[i].valid = (ret.results[i].errors = <<>>)

\* A batch returned a result that is valid and carries a warning.
C1_Witness ==
    /\ BatchReturned
    /\ \E i \in 1..Len(ret.results) :
          ret.results[i].valid /\ ret.results[i].warnings # <<>>

---------------------------------------------------------------------------
(* C2: a document of more than 3072 bytes is invalid and has a "size"      *)
(* error whose message mentions 3KB.                                       *)

C2_OversizeIsError ==
    (FileReturned /\ TheSize > 3072) =>
        /\ TheResult.valid = FALSE
        /\ \E i \in 1..Len(TheResult.errors) :
              /\ TheResult.errors[i].rule = "size"
              /\ MentionsKB(TheResult.errors[i].message, "3")

\* validateFile returned for a document of exactly 3073 bytes.
C2_Witness == FileReturned /\ TheSize = 3073 /\ HasFinding(TheResult.errors, "size")

---------------------------------------------------------------------------
(* C3 as stated: a document of 2049 to 3072 bytes is valid and has a       *)
(* "size" warning that mentions 2KB; a document of at most 2048 bytes has  *)
(* no size finding.                                                        *)

SizeWarned(result) ==
    \E i \in 1..Len(result.warnings) :
        /\ result.warnings[i].rule = "size"
        /\ MentionsKB(result.warnings[i].message, "2")

NoSizeFinding(result) ==
    ~HasFinding(result.errors, "size") /\ ~HasFinding(result.warnings, "size")

C3_Original ==
    FileReturned =>
        /\ (TheSize >= 2049 /\ TheSize <= 3072) =>
              (TheResult.valid /\ SizeWarned(TheResult))
        /\ TheSize <= 2048 => NoSizeFinding(TheResult)

(* C3 amended: a document of 2049 to 3072 bytes has a "size" warning that  *)
(* mentions 2KB and no "size" error, and is valid exactly when the other   *)
(* three rules report nothing; a document of at most 2048 bytes has no     *)
(* size finding.                                                           *)
C3_Amended ==
    FileReturned =>
        /\ (TheSize >= 2049 /\ TheSize <= 3072) =>
              /\ SizeWarned(TheResult)
              /\ ~HasFinding(TheResult.errors, "size")
              /\ TheResult.valid =
                    (\A rule \in OtherRules : ~HasFinding(TheResult.errors, rule))
        /\ TheSize <= 2048 => NoSizeFinding(TheResult)

\* validateFile returned for a document of exactly 3072 bytes that is valid.
C3_Witness == FileReturned /\ TheSize = 3072 /\ TheResult.valid /\ SizeWarned(TheResult)

---------------------------------------------------------------------------
(* C4: a "table-first" error for every document without a Markdown table,  *)
(* none for a document with a pipe-delimited header line followed, after   *)
(* optional blank lines, by a pipe-delimited separator line made only of   *)
(* dashes, colons, pipes and whitespace.  The statement is read in favour  *)
(* of the code on both sides: the error is required only where no line     *)
(* holds even a pipe-delimited run and a later line a separator run, and   *)
(* forbidden only where the two lines are pipe-delimited from end to end.  *)

RECURSIVE SplitLines(_, _)
SplitLines(toks, cur) ==
    IF toks = <<>> THEN <<cur>>
    ELSE IF Head(toks) = "\n" THEN <<cur>> \o SplitLines(Tail(toks), <<>>)
    ELSE SplitLines(Tail(toks), Append(cur, Head(toks)))

LinesOf(content) == SplitLines(content, <<>>)

IsBlankLine(line) == \A i \in 1..Len(line) : line[i] = " "

\* Two pipes of the line with something between them.
HasPipeRun(line) ==
    \E a, b \in 1..Len(line) : b >= a + 2 /\ line[a] = "|" /\ line[b] = "|"

\* The line, but for spaces around it, starts and ends with a pipe.
PipeDelimited(line) ==
    \E a, b \in 1..Len(line) :
        /\ b >= a + 2 /\ line[a] = "|" /\ line[b] = "|"
        /\ \A i \in 1..Len(line) : (i < a \/ i > b) => line[i] = " "

OnlySeparatorChars(line) == \A i \in 1..Len(line) : IsSeparatorChar(line[i])

HeaderSeparatorPair(lines, IsHeader(_), IsSeparator(_)) ==
    \E i, j \in 1..Len(lines) :
        /\ i < j
        /\ IsHeader(lines[i])
        /\ IsSeparator(lines[j])
        /\ \A k \in (i + 1)..(j - 1) : IsBlankLine(lines[k])

WellFormedTable(content) ==
    HeaderSeparatorPair(LinesOf(content), PipeDelimited,
                        LAMBDA l : PipeDelimited(l) /\ OnlySeparatorChars(l))

LooseTable(content) ==
    HeaderSeparatorPair(LinesOf(content), HasPipeRun,
                        LAMBDA l : HasPipeRun(l) /\ OnlySeparatorChars(l))

C4_TableFirst ==
    FileReturned =>
        /\ WellFormedTable(TheContent) => ~HasFinding(TheResult.errors, "table-first")
        /\ ~LooseTable(TheContent) => HasFinding(TheResult.errors, "table-first")

---------------------------------------------------------------------------
(* C5: with n the number of lines that start with one "#" and a space and  *)
(* lie outside fenced code blocks, a "single-h1" error with "no" when      *)
(* n = 0, one with "multiple" and n when n >= 2, none when n = 1.  A       *)
(* fenced code block runs from a fence to the next one, or to the end of   *)
(* the document when no fence follows.                                     *)

FencesBefore(content, i) ==
    Cardinality({j \in 1..(i - 1) : content[j] = "FENCE"})

InsideFence(content, i) == FencesBefore(content, i) % 2 = 1

HeadingLinesOutsideFences(content) ==
    {i \in 1..Len(content) :
        /\ i = 1 \/ content[i - 1] = "\n"
        /\ content[i] = "#"
        /\ i + 2 <= Len(content)
        /\ content[i + 1] = " "
        /\ content[i + 2] # "\n"
        /\ ~InsideFence(content, i)}

C5_SingleH1 ==
    FileReturned =>
        LET n == Cardinality(HeadingLinesOutsideFences(TheContent))
            H1Errors == {i \in 1..Len(TheResult.errors) :
                            TheResult.errors[i].rule = "single-h1"}
        IN  /\ n = 0 => \E i \in H1Errors : HasPiece(TheResult.errors[i].message, "no")
            /\ n >= 2 => \E i \in H1Errors :
                            /\ HasPiece(TheResult.errors[i].message, "multiple")
                            /\ HasPiece(TheResult.errors[i].message, ToString(n))
            /\ n = 1 => H1Errors = {}

---------------------------------------------------------------------------
(* C9: validateFile runs every rule whatever the others found, and the     *)
(* errors come in the order size, table-first, single-h1, valid-links:     *)
(* each rule's error is there exactly when its own condition holds.        *)

RuleRank(rule) ==
    CASE rule = "size" -> 1
      [] rule = "table-first" -> 2
      [] rule = "single-h1" -> 3
      [] rule = "valid-links" -> 4
      [] OTHER -> 0

BrokenLinkCount(tree, content, relativePath) ==
    Len(ValidateInternalLinks(tree, content, relativePath).errors)

C9_AllRulesInOrder ==
    FileReturned =>
        LET errors == TheResult.errors
        IN  /\ \A i, j \in 1..Len(errors) :
                  i < j => RuleRank(errors[i].rule) <= RuleRank(errors[j].rule)
            /\ \A i \in 1..Len(errors) : RuleRank(errors[i].rule) > 0
            /\ HasFinding(errors, "size") = (TheSize > 3072)
            /\ HasFinding(errors, "table-first") = ~HasTable(TheContent)
            /\ HasFinding(errors, "single-h1") = (H1Count(TheContent) # 1)
            /\ CountFindings(errors, "valid-links")
                  = BrokenLinkCount(fs, TheContent, call.path)

\* An oversized document with no table, no heading and a broken link got the
\* four errors.
C9_Witness ==
    /\ FileReturned
    /\ TheSize > 3072 /\ ~HasTable(TheContent) /\ H1Count(TheContent) = 0
    /\ RulesOf(TheResult.errors) = <<"size", "table-first", "single-h1", "valid-links">>

---------------------------------------------------------------------------
(* Vocabulary of the link claims *)

\* The targets of the inline links of the document a result is about.
LinksOf(r) == LinkTargets(ContentOf(NodeAt(fs, r.path)), 1)

\* The target starts with http://, https:// or #.
StartsExternalOrAnchor(linkPath) == linkPath[1] \in {"http://", "https://", "#"}

\* The target, resolved from the directory of the document, exists.
TargetExists(tree, r, linkPath) ==
    StatSucceeds(tree, JoinLink(Parent(r.path), linkPath))

LinkErrorsOf(r) ==
    {r.errors[i].message : i \in {j \in 1..Len(r.errors) : r.errors[j].rule = "valid-links"}}

---------------------------------------------------------------------------
(* C6: for every inline link of a validated document whose target is       *)
(* neither external nor an anchor and does not exist when resolved from    *)
(* the directory of the document, the result has a 'valid-links' error     *)
(* whose message contains the target as written, and valid is false.       *)

C6_BrokenLinkReported ==
    AnyReturned =>
        \A i \in 1..Len(ret.results) :
            LET r == ret.results[i]
            IN  \A k \in 1..Len(LinksOf(r)) :
                    LET linkPath == LinksOf(r)[k]
                    IN  (~StartsExternalOrAnchor(linkPath) /\ ~TargetExists(fs, r, linkPath))
                            => /\ \E m \in LinkErrorsOf(r) : ContainsText(m, linkPath)
                               /\ ~r.valid

\* validateFile reported ./b.md of a document in a category as broken: the
\* message holds "./b.md", not the resolved hooks/b.md.
C6_Witness ==
    /\ FileReturned
    /\ Len(call.path) = 2
    /\ \E k \in 1..Len(LinksOf(TheResult)) :
          /\ LinksOf(TheResult)[k] = <<".", "/", "b.md">>
          /\ ~TargetExists(fs, TheResult, LinksOf(TheResult)[k])
    /\ \E m \in LinkErrorsOf(TheResult) : ContainsText(m, <<".", "/", "b.md">>)

---------------------------------------------------------------------------
(* C7: a link whose target, resolved from the directory of the document    *)
(* (at the root or in a subdirectory), exists yields no 'valid-links'      *)
(* error: no error names that target.                                      *)

C7_ExistingLinkPasses ==
    AnyReturned =>
        \A i \in 1..Len(ret.results) :
            LET r == ret.results[i]
            IN  \A k \in 1..Len(LinksOf(r)) :
                    LET linkPath == LinksOf(r)[k]
                    IN  (~StartsExternalOrAnchor(linkPath) /\ TargetExists(fs, r, linkPath))
                            => (<<"Broken internal link: ">> \o linkPath) \notin LinkErrorsOf(r)

\* A document in a category links to ./b.md, which exists beside it, and the
\* call returned no error for it.
C7_Witness ==
    /\ AnyReturned
    /\ \E i \in 1..Len(ret.results) :
          LET r == ret.results[i]
          IN  /\ Len(r.path) = 2
              /\ \E k \in 1..Len(LinksOf(r)) :
                    /\ LinksOf(r)[k] = <<".", "/", "b.md">>
                    /\ TargetExists(fs, r, LinksOf(r)[k])
              /\ fs[<<"b.md">>].kind = "none"

---------------------------------------------------------------------------
(* C8: a link whose target starts with http://, https:// or # yields no    *)
(* finding and is not handed to stat, whatever the tree holds.             *)

C8_ExternalAndAnchorSkipped ==
    AnyReturned =>
        /\ \A i \in 1..Len(ret.results) :
              \A m \in LinkErrorsOf(ret.results[i]) :
                  Len(m) >= 2 => m[2] \notin {"http://", "https://", "#"}
        /\ \A k \in 1..Len(ret.statted) : ~StartsExternalOrAnchor(ret.statted[k].link)

\* validateFile returned for a document that holds an external link and an
\* anchor beside links that were checked.
C8_Witness ==
    /\ FileReturned
    /\ \E k \in 1..Len(LinksOf(TheResult)) : LinksOf(TheResult)[k][1] = "https://"
    /\ \E k \in 1..Len(LinksOf(TheResult)) : LinksOf(TheResult)[k][1] = "#"
    /\ ret.statted # <<>>

---------------------------------------------------------------------------
(* Vocabulary of the exclusion claim *)

ExcludedNames == {"README.md", "index.md", "releases.md"}

RECURSIVE DropExcludedNames(_)
DropExcludedNames(entries) ==
    IF entries = <<>> THEN <<>>
    ELSE IF Head(entries) \in ExcludedNames THEN DropExcludedNames(Tail(entries))
    ELSE <<Head(entries)>> \o DropExcludedNames(Tail(entries))

\* The tree without its files called README.md, index.md or releases.md.
WithoutExcluded(tree) ==
    [p \in DOMAIN tree |->
        IF tree[p].kind = "file" /\ Last(p) \in ExcludedNames THEN Absent
        ELSE IF tree[p].kind = "dir"
        THEN [tree[p] EXCEPT !.entries = DropExcludedNames(@)]
        ELSE tree[p]]

\* What the batch call that returned would return on another tree.
SameCallOn(tree) ==
    IF call.op = "validateAll" THEN ValidateAllOn(tree)
    ELSE ValidateCategoryOn(tree, call.path)

NoExcludedResult ==
    \A i \in 1..Len(ret.results) :
        ret.results[i].path[Len(ret.results[i].path)] \notin ExcludedNames

\* The error reports a link whose target is there in `tree'.
ReportsExistingTarget(tree, r, error) ==
    /\ error.rule = "valid-links"
    /\ \E k \in 1..Len(LinksOf(r)) :
          /\ error.message = <<"Broken internal link: ">> \o LinksOf(r)[k]
          /\ TargetExists(tree, r, LinksOf(r)[k])

RECURSIVE DropErrors(_, _, _)
DropErrors(tree, r, errors) ==
    IF errors = <<>> THEN <<>>
    ELSE IF ReportsExistingTarget(tree, r, Head(errors))
    THEN DropErrors(tree, r, Tail(errors))
    ELSE <<Head(errors)>> \o DropErrors(tree, r, Tail(errors))

\* A result computed without the excluded files, less the errors for links
\* to excluded files that are there.
WithLinksTo(tree, r) ==
    LET errors == DropErrors(tree, r, r.errors)
    IN  [r EXCEPT !.errors = errors, !.valid = (errors = <<>>)]

---------------------------------------------------------------------------
(* C10: the results of validateAll and validateCategory hold no entry      *)
(* whose filename is README.md, index.md or releases.md, at any depth, and *)
(* are the results the same call returns on the tree without those files.  *)
(* (As stated: violated by a document that links to an excluded file.)     *)

C10_Original ==
    BatchReturned =>
        /\ NoExcludedResult
        /\ ret.results = SameCallOn(WithoutExcluded(fs)).results

\* C10, amended: no entry for an excluded filename at any depth; the results
\* for the other documents are those of the tree without the excluded files,
\* except that a link to an excluded file that is there is not reported.
C10_Amended ==
    BatchReturned =>
        LET other == SameCallOn(WithoutExcluded(fs)).results
        IN  /\ NoExcludedResult
            /\ Len(ret.results) = Len(other)
            /\ \A i \in 1..Len(other) : ret.results[i] = WithLinksTo(fs, other[i])

\* A batch returned results from a tree that holds an excluded file in a
\* category, or an excluded file that a validated document links to.
C10_Witness ==
    /\ BatchReturned
    /\ ret.results # <<>>
    /\ \/ fs[<<"hooks", "README.md">>].kind = "file"
       \/ /\ fs[<<"README.md">>].kind = "file"
          /\ \E k \in 1..Len(LinksOf(ret.results[1])) :
                LinksOf(ret.results[1])[k] = <<".", "/", "README.md">>

---------------------------------------------------------------------------
(* C11: no operation returns a ValidationResult for a document whose       *)
(* filename is README.md, index.md or releases.md: validateAll,            *)
(* validateCategory and validateFile alike never evaluate such a document. *)
(* (Violated: validateFile has no exclusion check.)                        *)

C11_ExcludedNeverEvaluated ==
    AnyReturned =>
        \A i \in 1..Len(ret.results) :
            ret.results[i].path[Len(ret.results[i].path)] \notin ExcludedNames

---------------------------------------------------------------------------
(* C12: validateCategory(name) returns the empty list, and does not fail,  *)
(* whenever nothing called name is directly under the references          *)
(* directory, whatever else the tree holds.                                *)

C12_MissingCategoryIsEmpty ==
    (call.op = "validateCategory" /\ Len(call.path) = 1 /\ fs[call.path].kind = "none")
        => (ret.status = "ok" /\ ret.results = <<>>)

\* validateCategory("plugins") returned [] on a tree that holds documents
\* in another category.
C12_Witness ==
    /\ call.op = "validateCategory"
    /\ call.path = <<"plugins">>
    /\ fs[<<"plugins">>].kind = "none"
    /\ fs[<<"hooks", "a.md">>].kind = "file"
    /\ ret.status = "ok" /\ ret.results = <<>>

---------------------------------------------------------------------------
(* C13: for a category that is a directory, validateCategory(name) returns *)
(* the results validateAll returns for the documents under name/, in the   *)
(* same order and with the same paths, and nothing else.                   *)

RECURSIVE ResultsUnder(_, _)
ResultsUnder(results, category) ==
    IF results = <<>> THEN <<>>
    ELSE IF SubSeq(Head(results).path, 1, Len(category)) = category
    THEN <<Head(results)>> \o ResultsUnder(Tail(results), category)
    ELSE ResultsUnder(Tail(results), category)

C13_CategoryIsScopedAll ==
    (call.op = "validateCategory" /\ fs[call.path].kind = "dir")
        => /\ ret.status = "ok"
           /\ ret.results = ResultsUnder(ValidateAllOn(fs).results, call.path)

\* validateCategory("hooks") returned a result while validateAll has a
\* result for a document outside hooks/ too.
C13_Witness ==
    /\ call.op = "validateCategory"
    /\ call.path = <<"hooks">>
    /\ ret.status = "ok" /\ ret.results # <<>>
    /\ Len(ValidateAllOn(fs).results) > Len(ret.results)

---------------------------------------------------------------------------
(* C14: a scope run a second time on the tree it was just run on returns   *)
(* the same outcome and the same list of results: same length, order,      *)
(* paths, valid flags, errors and warnings.                                *)

---------------------------------------------------------------------------
(* C15: on a references directory that holds exactly a good document (one  *)
(* heading, one table, no broken link, under 2KB) and a bad one (no        *)
(* heading, no table), validateAll returns two results, the first valid    *)
(* and the second invalid with the errors table-first and single-h1, in    *)
(* whichever order the listing returns the two entries.  a.md is the good  *)
(* document and b.md the bad one.                                          *)
(* (As stated: violated when the listing returns the bad document first.)  *)

GoodAndBadOnly ==
    /\ fs[<<>>].entries \in {<<"a.md", "b.md">>, <<"b.md", "a.md">>}
    /\ fs[<<"a.md">>] = FileNode(GoodText, 0)
    /\ fs[<<"b.md">>] = FileNode(BadText, 0)

IsBadResult(r) ==
    /\ ~r.valid
    /\ HasFinding(r.errors, "table-first")
    /\ HasFinding(r.errors, "single-h1")

C15_Original ==
    (call.op = "validateAll" /\ GoodAndBadOnly)
        => /\ ret.status = "ok"
           /\ Len(ret.results) = 2
           /\ ret.results[1].valid
           /\ IsBadResult(ret.results[2])

\* C15, amended: two results, in the order of the listing; the one of the
\* good document is valid, the one of the bad document is invalid with the
\* errors table-first and single-h1.
C15_Amended ==
    (call.op = "validateAll" /\ GoodAndBadOnly)
        => /\ ret.status = "ok"
           /\ Len(ret.results) = 2
           /\ \A i \in 1..2 :
                 /\ ret.results[i].path = <<fs[<<>>].entries[i]>>
                 /\ ret.results[i].path = <<"a.md">> => ret.results[i].valid
                 /\ ret.results[i].path = <<"b.md">> => IsBadResult(ret.results[i])

\* validateAll returned on the two documents with the bad one listed first.
C15_Witness ==
    /\ call.op = "validateAll"
    /\ GoodAndBadOnly
    /\ fs[<<>>].entries = <<"b.md", "a.md">>
    /\ ret.status = "ok"
    /\ Len(ret.results) = 2

---------------------------------------------------------------------------
(* C16: validateFile(path) rejects, and returns no ValidationResult, when  *)
(* there is no readable document at path: it is absent, or it is not a     *)
(* file.  The failure is not turned into a finding.                        *)

C16_MissingFileRejects ==
    (call.op = "validateFile" /\ NodeAt(fs, call.path).kind # "file")
        => (ret.status = "throw" /\ ret.results = <<>>)

\* validateFile rejected for a document that is not there, in a category
\* that is.
C16_Witness ==
    /\ call.op = "validateFile"
    /\ Len(call.path) = 2
    /\ fs[call.path].kind = "none"
    /\ fs[Parent(call.path)].kind = "dir"
    /\ ret.status = "throw"

---------------------------------------------------------------------------
(* C17: for a document that is there, validateFile returns one             *)
(* ValidationResult, for that path, and does not reject, whatever the text *)
(* and whatever its links point to.                                        *)

C17_ReadableFileReturns ==
    (call.op = "validateFile" /\ NodeAt(fs, call.path).kind = "file")
        => /\ ret.status = "ok"
           /\ Len(ret.results) = 1
           /\ ret.results[1].path = call.path

\* validateFile returned for an oversized document with a link to a
\* missing target: both are findings.
C17_Witness ==
    /\ FileReturned
    /\ HasFinding(TheResult.errors, "size")
    /\ HasFinding(TheResult.errors, "valid-links")

---------------------------------------------------------------------------
(* C19: a step of validateFile, validateAll or validateCategory, returning *)
(* or rejecting, leaves the tree as it is.                                 *)

C19_TreeUnchanged == [][call'.op # "none" => fs' = fs]_vars

\* validateFile rejected on a tree that holds documents.
C19_Witness ==
    /\ call.op = "validateFile"
    /\ ret.status = "throw"
    /\ FileCount > 0

---------------------------------------------------------------------------
(* C20: validateAll returns one ValidationResult for every file of the     *)
(* tree, at any depth, whose name ends in .md and is not excluded, under   *)
(* its path from the references directory; none twice, none for anything   *)
(* else.                                                                   *)

DocumentsOf(tree) ==
    {p \in FilePaths : /\ tree[p].kind = "file"
                       /\ EndsWithMd(Last(p))
                       /\ Last(p) \notin ExcludedNames}

C20_OneResultPerDocument ==
    call.op = "validateAll"
        => /\ ret.status = "ok"
           /\ {ret.results[i].path : i \in 1..Len(ret.results)} = DocumentsOf(fs)
           /\ Len(ret.results) = Cardinality(DocumentsOf(fs))

\* validateAll returned the one document of the tree, two directories
\* down, beside a file that is no document.
C20_Witness ==
    /\ call.op = "validateAll"
    /\ ret.status = "ok"
    /\ Len(ret.results) = 1
    /\ ret.results[1].path = <<"hooks", "deep", "a.md">>
    /\ FileCount = 2

---------------------------------------------------------------------------
(* C18: when the loop of validateAll or validateCategory reaches a file it *)
(* found, not excluded, that cannot be read any more, the call rejects:    *)
(* it returns no ValidationResult, not even those of the documents already *)
(* validated, and the files after it are not validated.                    *)

ReadWillFail ==
    /\ Running
    /\ pending # <<>>
    /\ Head(pending)[Len(Head(pending))] \notin ExcludedNames
    /\ NodeAt(fs, Head(pending)).kind # "file"

C18_BatchAborts ==
    [][(ReadWillFail /\ fs' = fs)
          => (ret'.status = "throw" /\ ret'.results = <<>> /\ pending' = <<>>)]_vars

\* The loop has validated one document and the next one it found has been
\* removed.
C18_Witness ==
    /\ ReadWillFail
    /\ ret.results # <<>>

---------------------------------------------------------------------------
(* C26: the valid-links errors of a document are, in the order of the      *)
(* text, one per occurrence of a link that is neither external nor an      *)
(* anchor and whose target does not exist; there is none for another link. *)

RECURSIVE OffendingLinks(_, _, _)
OffendingLinks(tree, r, links) ==
    IF links = <<>> THEN <<>>
    ELSE (IF ~StartsExternalOrAnchor(Head(links)) /\ ~TargetExists(tree, r, Head(links))
          THEN <<Head(links)>> ELSE <<>>)
         \o OffendingLinks(tree, r, Tail(links))

ValidLinksMessages(r) ==
    LET found == SelectSeq(r.errors, LAMBDA e : e.rule = "valid-links")
    IN  [k \in 1..Len(found) |-> found[k].message]

C26_LinkFindingsInTextOrder ==
    AnyReturned =>
        \A i \in 1..Len(ret.results) :
            LET r == ret.results[i]
                offending == OffendingLinks(fs, r, LinksOf(r))
            IN  ValidLinksMessages(r) =
                    [k \in 1..Len(offending) |-> <<"Broken internal link: ">> \o offending[k]]

\* Three links to missing targets, the first target linked again last:
\* three errors, in that order.
C26_Witness ==
    /\ FileReturned
    /\ Len(ValidLinksMessages(TheResult)) = 3
    /\ ValidLinksMessages(TheResult)[1] = ValidLinksMessages(TheResult)[3]
    /\ ValidLinksMessages(TheResult)[1] # ValidLinksMessages(TheResult)[2]

---------------------------------------------------------------------------
(* C29: in every ValidationResult the rule of a finding is size,           *)
(* table-first, single-h1 or valid-links; warnings are size findings only; *)
(* errors and warnings together hold at most one size finding; errors hold *)
(* at most one table-first and at most one single-h1.                      *)

KnownRules == {"size", "table-first", "single-h1", "valid-links"}

C29_RuleVocabulary ==
    AnyReturned =>
        \A i \in 1..Len(ret.results) :
            LET r == ret.results[i]
            IN  /\ \A k \in 1..Len(r.errors) : r.errors[k].rule \in KnownRules
                /\ \A k \in 1..Len(r.warnings) : r.warnings[k].rule = "size"
                /\ CountFindings(r.errors, "size") + CountFindings(r.warnings, "size") <= 1
                /\ CountFindings(r.errors, "table-first") <= 1
                /\ CountFindings(r.errors, "single-h1") <= 1

\* A result with a size error, the two structure errors and two link errors.
C29_Witness ==
    /\ FileReturned
    /\ CountFindings(TheResult.errors, "size") = 1
    /\ CountFindings(TheResult.errors, "table-first") = 1
    /\ CountFindings(TheResult.errors, "single-h1") = 1
    /\ CountFindings(TheResult.errors, "valid-links") = 2

---------------------------------------------------------------------------
(* C27: only the heading rule works on the text without its fenced code    *)
(* blocks.  The table rule and the link rule read the raw text: a table    *)
(* inside a block counts, a link to a missing target inside a block is an  *)
(* error; a "# " line inside a block is not counted as a heading.  The     *)
(* heading part is stated for texts whose fences pair up, each opening     *)
(* fence starting a line and each closing fence ending one.                *)

FencePositions(content) == {i \in 1..Len(content) : content[i] = "FENCE"}

FencesPairUp(content) ==
    /\ Cardinality(FencePositions(content)) % 2 = 0
    /\ \A i \in FencePositions(content) :
          IF InsideFence(content, i)
          THEN i = Len(content) \/ content[i + 1] = "\n"
          ELSE i = 1 \/ content[i - 1] = "\n"

HeadingFindingsFor(n) ==
    IF n = 0 THEN <<Finding("single-h1", NoH1Message)>>
    ELSE IF n > 1 THEN <<Finding("single-h1", MultipleH1Message(n))>>
    ELSE <<>>

C27_StrippingForHeadingsOnly ==
    FileReturned =>
        /\ HasFinding(TheResult.errors, "table-first") = ~HasTable(TheContent)
        /\ CountFindings(TheResult.errors, "valid-links")
              = Len(OffendingLinks(fs, TheResult, LinkTargets(TheContent, 1)))
        /\ FencesPairUp(TheContent)
              => SelectSeq(TheResult.errors, LAMBDA e : e.rule = "single-h1")
                   = HeadingFindingsFor(Cardinality(HeadingLinesOutsideFences(TheContent)))

\* A heading, then a fenced block with a heading line, a broken link and
\* the only table: one link error, no table error, no heading error.
C27_Witness ==
    /\ FileReturned
    /\ TheContent = H1Line \o FencedBlock
    /\ CountFindings(TheResult.errors, "valid-links") = 1
    /\ ~HasTable(StripCodeBlocks(TheContent))
    /\ ~HasFinding(TheResult.errors, "table-first")
    /\ ~HasFinding(TheResult.errors, "single-h1")

---------------------------------------------------------------------------
(* C21: the results of validateAll are in depth-first discovery order: of  *)
(* two results, the first is the one whose path, where the two part, takes *)
(* the entry that the listing of that directory returns first.  So the     *)
(* documents of a subdirectory are together, at the place of its entry,    *)
(* and leaving out the excluded files does not reorder the others.         *)

PositionIn(entries, name) == CHOOSE k \in 1..Len(entries) : entries[k] = name

\* Where two different document paths part.
PartingAt(p, q) ==
    CHOOSE k \in 1..Len(p) : /\ k <= Len(q)
                             /\ p[k] # q[k]
                             /\ \A j \in 1..(k - 1) : p[j] = q[j]

DiscoveredBefore(tree, p, q) ==
    LET k == PartingAt(p, q)
        entries == tree[SubSeq(p, 1, k - 1)].entries
    IN  PositionIn(entries, p[k]) < PositionIn(entries, q[k])

C21_DepthFirstOrder ==
    (call.op = "validateAll" /\ ret.status = "ok")
        => \A i, j \in 1..Len(ret.results) :
              i < j => DiscoveredBefore(fs, ret.results[i].path, ret.results[j].path)

\* Five results: a root document, the three documents under hooks/ with
\* the one of hooks/deep/ between the other two, then a root document; the
\* tree holds README.md as well.
C21_Witness ==
    /\ call.op = "validateAll"
    /\ ret.status = "ok"
    /\ Len(ret.results) = 5
    /\ Len(ret.results[1].path) = 1
    /\ Len(ret.results[2].path) = 2
    /\ Len(ret.results[3].path) = 3
    /\ Len(ret.results[4].path) = 2
    /\ Len(ret.results[5].path) = 1
    /\ fs[<<"README.md">>].kind = "file"

---------------------------------------------------------------------------
(* C28: whatever calls were made and however the tree was modified before, *)
(* the answer of a call is the one a new validator gives on the tree as it *)
(* is now: every result reports the table, heading and size findings of    *)
(* the text the document holds now and the links whose targets are absent  *)
(* now.                                                                    *)

\* The answer of a new validator to a call on a tree.
FreshAnswer(tree, c) ==
    IF c.op = "validateFile" THEN ValidateFileOn(tree, c.path)
    ELSE IF c.op = "validateAll" THEN ValidateAllOn(tree)
    ELSE ValidateCategoryOn(tree, c.path)

\* A result says about its document what the tree says.
ReflectsTree(tree, r) ==
    LET node == NodeAt(tree, r.path)
        offending == OffendingLinks(tree, r, LinkTargets(ContentOf(node), 1))
    IN  /\ node.kind = "file"
        /\ HasFinding(r.errors, "table-first") = ~HasTable(ContentOf(node))
        /\ HasFinding(r.errors, "size") = (SizeOf(node) > SIZE_ERROR_THRESHOLD)
        /\ ValidLinksMessages(r)
              = [k \in 1..Len(offending) |-> BrokenLinkMessage(offending[k])]

AnswersTree(tree, c, answer) ==
    /\ answer = FreshAnswer(tree, c)
    /\ answer.status = "ok"
          => \A i \in 1..Len(answer.results) : ReflectsTree(tree, answer.results[i])

C28_FreshEveryCall == [][call'.op # "none" => AnswersTree(fs', call', ret')]_vars

\* The validator reported ./b.md missing from a.md; b.md has been written
\* since, and the next call is yet to be made.
C28_Witness ==
    /\ call = NoCall
    /\ ret.status = "ok"
    /\ Len(ret.results) = 1
    /\ ret.results[1].path = <<"a.md">>
    /\ HasFinding(ret.results[1].errors, "valid-links")
    /\ fs[<<"b.md">>].kind = "file"
    /\ ret # ValidateFileOn(fs, <<"a.md">>)

---------------------------------------------------------------------------
(* C30: in a validateFile call that returned, the size rule has judged the *)
(* byte length of the text that the other rules scanned: there is a size   *)
(* error iff that text is longer than 3072 bytes, and a size warning iff   *)
(* it is longer than 2048 bytes and not longer than 3072.                  *)

C30_SameVersionJudged ==
    FileReturned =>
        /\ HasFinding(TheResult.errors, "size")
              = (SizeOf(contentRead) > SIZE_ERROR_THRESHOLD)
        /\ HasFinding(TheResult.warnings, "size")
              = (/\ SizeOf(contentRead) > SIZE_WARN_THRESHOLD
                 /\ SizeOf(contentRead) <= SIZE_ERROR_THRESHOLD)

---------------------------------------------------------------------------
(* C23: TDDValidator.validateAll returns one result for every file of the  *)
(* services directory, at any depth, whose name ends in .ts, is not        *)
(* index.ts and does not end in .test.ts, and none for anything else; in   *)
(* a result hasTest is true iff the file of the same name with .test.ts    *)
(* for .ts exists beside it, and testPath is null iff hasTest is false.    *)

ServiceFilesOf(tree) ==
    {p \in DOMAIN tree :
        /\ p # <<>>
        /\ tree[p].kind = "file"
        /\ Last(p)[Len(Last(p))] = ".ts"
        /\ Last(p) # <<"index", ".ts">>
        /\ ~(Len(Last(p)) >= 2 /\ Last(p)[Len(Last(p)) - 1] = ".test")}

\* The test file beside a service file.
CoLocatedTest(p) ==
    Append(Parent(p), SubSeq(Last(p), 1, Len(Last(p)) - 1) \o <<".test", ".ts">>)

TDDAllReturned == call.op = "TDDValidator.validateAll" /\ ret.status = "ok"

C23_OneResultPerService ==
    TDDAllReturned =>
        /\ {ret.results[i].path : i \in 1..Len(ret.results)} = ServiceFilesOf(fs)
        /\ Len(ret.results) = Cardinality(ServiceFilesOf(fs))
        /\ \A i \in 1..Len(ret.results) :
              LET r == ret.results[i]
              IN  /\ r.hasTest = (NodeAt(fs, CoLocatedTest(r.path)).kind = "file")
                  /\ (r.testPath = Null) = ~r.hasTest

\* Two results, for a.ts without a test and gen/b.ts with one, on a tree
\* that holds both index.ts files and a.md.
C23_Witness ==
    /\ TDDAllReturned
    /\ Len(ret.results) = 2
    /\ \E i, j \in 1..2 :
          /\ ret.results[i].path = <<(<<"a", ".ts">>)>>
          /\ ~ret.results[i].hasTest
          /\ ret.results[j].path = <<(<<"gen">>), (<<"b", ".ts">>)>>
          /\ ret.results[j].hasTest
          /\ ret.results[j].testPath = <<(<<"gen">>), (<<"b", ".test", ".ts">>)>>
    /\ fs[<<(<<"index", ".ts">>)>>].kind = "file"
    /\ fs[<<(<<"gen">>), (<<"index", ".ts">>)>>].kind = "file"
    /\ fs[<<(<<"a", ".md">>)>>].kind = "file"

---------------------------------------------------------------------------
(* C24: findMissingTests returns the paths of the service files whose      *)
(* test file does not exist, and no other; a service whose test file       *)
(* exists without a describe(, it( or test( call is not among them, while  *)
(* its validateAll result has issues; the issues of a result are empty iff *)
(* the test file exists and holds such a call.                             *)

TestExists(p) == NodeAt(fs, CoLocatedTest(p)).kind = "file"

TestHasCalls(p) == NodeAt(fs, CoLocatedTest(p)).text \in TestTextsWithCalls

C24_MissingTestsOnly ==
    /\ (call.op = "TDDValidator.findMissingTests" /\ ret.status = "ok")
          => /\ {ret.results[i] : i \in 1..Len(ret.results)}
                    = {p \in ServiceFilesOf(fs) : ~TestExists(p)}
             /\ Len(ret.results) = Cardinality({p \in ServiceFilesOf(fs) : ~TestExists(p)})
             /\ \A p \in ServiceFilesOf(fs) :
                    (TestExists(p) /\ ~TestHasCalls(p))
                        => \A i \in 1..Len(ret.results) : ret.results[i] # p
    /\ TDDAllReturned
          => \A i \in 1..Len(ret.results) :
                (ret.results[i].issues = <<>>)
                    = (TestExists(ret.results[i].path) /\ TestHasCalls(ret.results[i].path))

\* findMissingTests returned gen/b.ts alone, while a.ts has a test file
\* that holds "xit()" and no call of describe, it or test.
C24_Witness ==
    /\ call.op = "TDDValidator.findMissingTests"
    /\ ret = Returned(<< <<(<<"gen">>), (<<"b", ".ts">>)>> >>, <<>>)
    /\ fs[<<(<<"a", ".ts">>)>>].kind = "file"
    /\ fs[<<(<<"a", ".test", ".ts">>)>>] = FileNode(<<"x", "it", "(", ")">>, 0)

---------------------------------------------------------------------------
(* C25: fetchGitHubReleases(limit) returns no release when the server      *)
(* answers 404, fails with an error that names the status when it answers  *)
(* another status that is not a success, and on a success returns the      *)
(* first min(limit, n) of the n releases of the answer, in their order;    *)
(* fetchAll fails, with neither docs nor releases, when one of its two     *)
(* fetches fails.                                                          *)

FetchFails(status) == status # 404 /\ ~(status >= 200 /\ status < 300)

C25_ReleasesAndFetchAll ==
    /\ fetched.op = "fetchGitHubReleases"
          => /\ server.releases = 404
                   => fetched.status = "ok" /\ fetched.releases = <<>>
             /\ (FetchFails(server.releases) /\ server.releases # NetworkError)
                   => /\ fetched.status = "throw"
                      /\ fetched.error[1].status = server.releases
             /\ server.releases = 200
                   => /\ fetched.status = "ok"
                      /\ Len(fetched.releases)
                            = (IF fetched.limit < Len(server.data)
                               THEN fetched.limit ELSE Len(server.data))
                      /\ \A k \in 1..Len(fetched.releases) :
                            fetched.releases[k].tagName = server.data[k].tag_name
    /\ fetched.op = "fetchAll"
          => ((~(server.docs >= 200 /\ server.docs < 300) \/ FetchFails(server.releases))
                => /\ fetched.status = "throw"
                   /\ fetched.docs = <<>>
                   /\ fetched.releases = <<>>)

\* fetchGitHubReleases(2) returned the first two of three releases.
C25_Witness ==
    /\ fetched.op = "fetchGitHubReleases"
    /\ fetched.limit = 2
    /\ fetched.status = "ok"
    /\ Len(server.data) = 3
    /\ Len(fetched.releases) = 2
    /\ server.data[1].tag_name # server.data[2].tag_name

---------------------------------------------------------------------------
(* C22: validate-references ends with a nonzero exit status when a         *)
(* document it validates is invalid or when something fails: the skills    *)
(* directory cannot be listed, a references directory is missing or cannot *)
(* be read, or the validator rejects; with a skill name and with --all.    *)

\* The skills a run is about: the directories under skills/ with --all,
\* else the one named.
SkillsAsked ==
    IF ValidateAllFlag(cli.args)
    THEN {name \in SkillNames : SkillAt(plugin, name).kind = "dir"}
    ELSE {SkillNameOf(cli.args)[k] : k \in 1..Len(SkillNameOf(cli.args))}

OperationalFailure ==
    \/ ValidateAllFlag(cli.args) /\ plugin.skillsDir # "dir"
    \/ \E name \in SkillsAsked :
          \/ SkillAt(plugin, name).references # "there"
          \/ NodeAt(SkillAt(plugin, name).tree, <<>>).kind # "dir"

InvalidDocument ==
    \E name \in SkillsAsked :
        /\ SkillAt(plugin, name).references = "there"
        /\ \E p \in DocumentsOf(SkillAt(plugin, name).tree) :
              ~ValidateFileOn(SkillAt(plugin, name).tree, p).results[1].valid

C22_NonzeroOnFailure ==
    (cli.exit # -1 /\ (OperationalFailure \/ InvalidDocument)) => cli.exit # 0

=============================================================================
